---- MODULE Spec2Model ----
(***************************************************************************)
(* A model of SwiftType's keystroke interception and replacement engine:   *)
(* the keyword buffer (KeyboardState), the key-code mapper (Key::to_char), *)
(* the snippet matcher (ReplacementEngine::check_for_replacements), the    *)
(* hook callback (keyboard_hook_proc / process_key_event), the input       *)
(* synthesis pipeline (perform_replacement_with_backspace), the dynamic    *)
(* content formatter (format_dynamic_content), the configuration manager   *)
(* (ConfigManager) and the KeyboardHook's lifetime (new, start, drop).     *)
(*                                                                         *)
(* Strings are sequences of one-character strings.                         *)
(***************************************************************************)
EXTENDS Integers, Sequences, FiniteSets, TLC

VARIABLES
    buffer,        \* KeyboardState.buffer: Vec<char>
    buffer_size,   \* KeyboardState.buffer_size
    pushed,        \* history: the characters given to add_char since the last clear
    last_replace,  \* history: [called, keyword, before, ret] of replace_keyword
                   \*   when it was the last call on the KeyboardState
    settings,      \* Settings shared with the engine: [enabled, snippets]
    m_pc,          \* matcher call: "ready" before, "done" after check_for_replacements
    m_buffer,      \* matcher call: the buffer argument
    m_now,         \* matcher call: the wall clock read by the formatter
    m_result,      \* matcher call: the Option<String> returned
    pc,            \* hook callback: "idle", or the phase of the running replacement
    keyword,       \* process_key_event: the local `keyword` (the buffered candidate)
    matched,       \* history: index of the snippet check_for_replacements matched
    text,          \* perform_replacement_with_backspace: argument `text`
    keyword_length,\* perform_replacement_with_backspace: argument `keyword_length`
    attempt,       \* perform_replacement_with_backspace: selection attempt counter
    result,        \* perform_replacement_with_backspace: the value returned
    input,         \* OS input state: [mods: modifier keys logically down;
                   \*   combo: a modifier key-down was injected since the last
                   \*   reset_modifier_keys call; reset: reset_modifier_keys was called]
    clipboard,     \* the system clipboard: a text, or NoText
    original_clipboard, \* the local `original_clipboard`: Option<String>
    clip_before,   \* history: the clipboard when the running replacement started
    paste_path,    \* history: the running replacement took the clipboard path
    backspaces,    \* history: Backspace key pairs submitted by the running replacement
    target,        \* history: what the running replacement did to the focused
                   \*   control: [typed: characters of the text now before the
                   \*   caret; removed: characters that were there before the
                   \*   replacement started and are gone; narrowed: an injected
                   \*   character's 16-bit code differs from its code point]
    bs_rejected,   \* history: the first Backspace pair of the running replacement
                   \*   that the OS rejected (1-based), 0 when none was
    event,         \* history: [code, flags, pushes, next] of the last event
                   \*   given to keyboard_hook_proc; pushes: the characters it
                   \*   added to the keyword buffer; next: the CallNextHookEx
                   \*   calls its invocation has made
    hooks,         \* KeyboardHook instances: id -> [st, hook (the Cell<isize>)]
    registered,    \* the OS's table of installed hook handles
    installer,     \* history: handle -> id of the instance whose start() installed it
    unhooked,      \* history: handle -> number of UnhookWindowsHookEx calls on it
    global_refs,   \* GLOBAL_KEYBOARD_STATE / GLOBAL_REPLACEMENT_ENGINE: 0 while
                   \*   unset, else the instance whose Arcs the Weak refs point to
    ext_refs,      \* id -> [state, engine]: the creator still holds its clone of
                   \*   the Arc given to KeyboardHook::new
    f_pc,          \* formatter call: "ready" before, "done" after
    f_template,    \* formatter call: the template argument
    f_now,         \* formatter call: the wall clock read by format_date
    formatted,     \* formatter call: the String returned
    cfg_pc,        \* ConfigManager: "none" before new(), then "ready"
    config_file,   \* settings.json: a Settings value, or NoFile
    supplied,      \* history: the Settings last read from the file or passed in
    cfg_settings,  \* ConfigManager.settings
    cb,            \* concurrent callbacks: id -> [pc, keyword, text], the position
                   \*   and the locals of process_key_event in that invocation
    locks          \* [state, engine]: the callback holding the Mutex of the
                   \*   KeyboardState / of the ReplacementEngine, 0 when free

kbVars == <<buffer, buffer_size, pushed, last_replace>>
matchVars == <<m_pc, m_buffer, m_now, m_result>>
hookVars == <<pc, keyword, matched, text, keyword_length, attempt, result>>
osVars == <<input, clipboard, original_clipboard, clip_before, paste_path,
           backspaces, bs_rejected, target>>
lifeVars == <<hooks, registered, installer, unhooked, global_refs, ext_refs>>
fmtVars == <<f_pc, f_template, f_now, formatted>>
cfgVars == <<cfg_pc, config_file, supplied, cfg_settings>>
concVars == <<cb, locks>>
pureVars == <<matchVars, fmtVars, cfgVars, concVars>>
vars == <<buffer, buffer_size, pushed, last_replace, settings,
          m_pc, m_buffer, m_now, m_result,
          pc, keyword, matched, text, keyword_length, attempt, result,
          input, clipboard, original_clipboard, clip_before, paste_path,
          backspaces, bs_rejected, target, event, hooks, registered, installer, unhooked,
          global_refs, ext_refs, f_pc, f_template, f_now, formatted,
          cfg_pc, config_file, supplied, cfg_settings, cb, locks>>

(***************************************************************************)
(* Bounds of the model.                                                    *)
(***************************************************************************)
MaxBufferSize == 3
MaxPushes == 5
MaxSnippets == 2
MaxCandidateLen == 3
HookBufferSize == 5
MaxSegments == 3
MaxTriggerLength == 25
MaxHooks == 1
MaxHandles == 2
MaxCallbacks == 3
MaxRejectAt == 2
MaxInstances == 2

(***************************************************************************)
(* Helpers on strings.                                                     *)
(***************************************************************************)
Min(a, b) == IF a < b THEN a ELSE b

\* The last n characters of s (n <= Len(s)).
LastN(s, n) == SubSeq(s, Len(s) - n + 1, Len(s))

\* Rust's str::ends_with.
ends_with(s, suffix) ==
    /\ Len(suffix) <= Len(s)
    /\ LastN(s, Len(suffix)) = suffix

None == [some |-> FALSE, val |-> << >>]
Some(x) == [some |-> TRUE, val |-> x]

(***************************************************************************)
(* keyboard/key.rs: Key::to_char.                                          *)
(***************************************************************************)
Digits == <<"0", "1", "2", "3", "4", "5", "6", "7", "8", "9">>
Lower == <<"a", "b", "c", "d", "e", "f", "g", "h", "i", "j", "k", "l", "m",
           "n", "o", "p", "q", "r", "s", "t", "u", "v", "w", "x", "y", "z">>

to_char(vk) ==
    CASE vk \in {8, 9, 13, 27} -> None          \* backspace, tab, enter, esc
      [] vk = 32 -> Some(" ")
      [] vk \in 48..57 -> Some(Digits[vk - 48 + 1])
      [] vk \in 65..90 -> Some(Lower[vk - 65 + 1])
      [] vk \in 96..105 -> Some(Digits[vk - 96 + 1])
      [] vk = 106 -> Some("*")
      [] vk = 107 -> Some("+")
      [] vk = 109 -> Some("-")
      [] vk = 110 -> Some(".")
      [] vk = 111 -> Some("/")
      [] vk = 186 -> Some(";")
      [] vk = 187 -> Some("=")
      [] vk = 188 -> Some(",")
      [] vk = 189 -> Some("-")
      [] vk = 190 -> Some(".")
      [] vk = 191 -> Some("/")
      [] vk = 192 -> Some("@")
      [] vk = 219 -> Some("[")
      [] vk = 220 -> Some("\\")
      [] vk = 221 -> Some("]")
      [] vk = 222 -> Some("'")
      [] vk = 226 -> Some("_")
      [] OTHER -> None

(***************************************************************************)
(* keyboard/mod.rs: KeyboardState.                                         *)
(***************************************************************************)
WM_KEYDOWN == 256
WM_SYSKEYDOWN == 260
\* A message that is not a key-down (the key-up that follows WM_KEYDOWN).
WM_KEYUP == WM_KEYDOWN + 1

\* A plausible slip in add_char: the newest character is dropped, not the oldest.
add_char_evict_newest(buf, size, c) ==
    LET b == Append(buf, c)
    IN  IF Len(b) > size THEN SubSeq(b, 1, Len(b) - 1) ELSE b

\* KeyboardState::add_char: push, then drop the oldest once over capacity.
add_char(buf, size, c) ==
    LET b == Append(buf, c)
    IN  IF Len(b) > size THEN Tail(b) ELSE b

\* A plausible slip in clear_buffer: the buffer is left as it is.
clear_buffer_keeps(buf) == buf

\* KeyboardState::clear_buffer.
clear_buffer(buf) == << >>

should_check_always(buf) == TRUE

\* KeyboardState::should_check_replacement.
should_check_replacement(buf) == Len(buf) >= 2

\* KeyboardState::get_buffer / get_keyword_candidate: the buffer as a string.
get_buffer(buf) == buf
get_keyword_candidate(buf) == buf

\* A plausible slip: the tail is cut without being compared to the keyword.
replace_keyword_unchecked(buf, kw) ==
    IF Len(kw) > Len(buf)
    THEN [ret |-> FALSE, buf |-> buf]
    ELSE [ret |-> TRUE, buf |-> SubSeq(buf, 1, Len(buf) - Len(kw))]

\* replace_keyword: the value returned and the buffer left.
replace_keyword(buf, kw) ==
    LET keyword_len == Len(kw)
        start_index == Len(buf) - keyword_len
    IN  IF keyword_len > Len(buf)
        THEN [ret |-> FALSE, buf |-> buf]
        ELSE IF SubSeq(buf, start_index + 1, Len(buf)) = kw
             THEN [ret |-> TRUE, buf |-> SubSeq(buf, 1, start_index)]
             ELSE [ret |-> FALSE, buf |-> buf]

\* KeyboardState::process_key_event: only key-down messages whose key maps to
\* a character reach add_char.
process_key_event_kb(buf, size, msg, vk) ==
    IF (msg = WM_KEYDOWN \/ msg = WM_SYSKEYDOWN) /\ to_char(vk).some
    THEN add_char(buf, size, to_char(vk).val)
    ELSE buf

\* The characters process_key_event hands to add_char (history bookkeeping).
KeyEventPushes(msg, vk) ==
    IF (msg = WM_KEYDOWN \/ msg = WM_SYSKEYDOWN) /\ to_char(vk).some
    THEN <<to_char(vk).val>>
    ELSE << >>

(***************************************************************************)
(* replacement/formatter.rs: format_dynamic_content and format_date.       *)
(* The wall clock is a record [year, month, day, hour, minute, second].    *)
(***************************************************************************)
starts_with_at(s, i, pat) ==
    /\ i + Len(pat) - 1 <= Len(s)
    /\ SubSeq(s, i, i + Len(pat) - 1) = pat

\* Rust's str::contains for a non-empty pattern.
contains(s, pat) == \E i \in 1..Len(s) : starts_with_at(s, i, pat)

\* Rust's str::replace: leftmost, non-overlapping occurrences.
RECURSIVE replace_from(_, _, _, _)
replace_from(s, i, pat, rep) ==
    IF i > Len(s) THEN << >>
    ELSE IF starts_with_at(s, i, pat)
         THEN rep \o replace_from(s, i + Len(pat), pat, rep)
         ELSE <<s[i]>> \o replace_from(s, i + 1, pat, rep)

replace(s, pat, rep) == replace_from(s, 1, pat, rep)

TwoDigits(n) == <<Digits[((n \div 10) % 10) + 1], Digits[(n % 10) + 1]>>
FourDigits(n) == TwoDigits(n \div 100) \o TwoDigits(n % 100)

\* chrono's strftime for the specifiers format_date produces; any other
\* specifier is outside the templates modelled and is left marked.
chrono_item(c, now) ==
    CASE c = "Y" -> FourDigits(now.year)
      [] c = "y" -> TwoDigits(now.year % 100)
      [] c = "m" -> TwoDigits(now.month)
      [] c = "d" -> TwoDigits(now.day)
      [] c = "H" -> TwoDigits(now.hour)
      [] c = "M" -> TwoDigits(now.minute)
      [] c = "S" -> TwoDigits(now.second)
      [] c = "%" -> <<"%">>
      [] OTHER -> <<"<unmodelled specifier>">>

RECURSIVE chrono_format_from(_, _, _)
chrono_format_from(fmt, i, now) ==
    IF i > Len(fmt) THEN << >>
    ELSE IF fmt[i] = "%" /\ i < Len(fmt)
         THEN chrono_item(fmt[i + 1], now) \o chrono_format_from(fmt, i + 2, now)
         ELSE IF fmt[i] = "%"
              THEN <<"<unmodelled specifier>">>
              ELSE <<fmt[i]>> \o chrono_format_from(fmt, i + 1, now)

\* format_date: the placeholder-to-strftime rewriting, in the code's order,
\* then chrono's formatting of the clock.
format_date(format, now) ==
    LET f1 == replace(format, <<"y", "y", "y", "y">>, <<"%", "Y">>)
        f2 == replace(f1, <<"y", "y">>, <<"%", "y">>)
        f3 == replace(f2, <<"M", "M">>, <<"%", "m">>)
        f4 == replace(f3, <<"d", "d">>, <<"%", "d">>)
        f5 == replace(f4, <<"H", "H">>, <<"%", "H">>)
        f6 == replace(f5, <<"m", "m">>, <<"%", "M">>)
        f7 == replace(f6, <<"s", "s">>, <<"%", "S">>)
    IN  chrono_format_from(f7, 1, now)

DateTag == <<"{", "d", "a", "t", "e", ":">>

\* Position of the first "}" at or after i, or 0.
RECURSIVE find_close(_, _)
find_close(s, i) ==
    IF i > Len(s) THEN 0
    ELSE IF s[i] = "}" THEN i ELSE find_close(s, i + 1)

\* A plausible slip in the pattern: ([^}]*) also takes an empty capture.
RECURSIVE replace_date_tags_empty_body(_, _, _)
replace_date_tags_empty_body(s, i, now) ==
    IF i > Len(s) THEN << >>
    ELSE LET body == i + Len(DateTag)
             close == find_close(s, body)
         IN  IF starts_with_at(s, i, DateTag) /\ close >= body
             THEN format_date(SubSeq(s, body, close - 1), now)
                      \o replace_date_tags_empty_body(s, close + 1, now)
             ELSE <<s[i]>> \o replace_date_tags_empty_body(s, i + 1, now)

\* Regex::replace_all of \{date:([^}]+)\} by format_date of the capture.
RECURSIVE replace_date_tags(_, _, _)
replace_date_tags(s, i, now) ==
    IF i > Len(s) THEN << >>
    ELSE LET body == i + Len(DateTag)
             close == find_close(s, body)
         IN  IF starts_with_at(s, i, DateTag) /\ close > body
             THEN format_date(SubSeq(s, body, close - 1), now)
                      \o replace_date_tags(s, close + 1, now)
             ELSE <<s[i]>> \o replace_date_tags(s, i + 1, now)

format_dynamic_content(template, now) ==
    IF \/ contains(template, <<"y", "y", "y", "y">>)
       \/ contains(template, <<"M", "M">>)
       \/ contains(template, <<"d", "d">>)
       \/ contains(template, <<"H", "H">>)
       \/ contains(template, <<"m", "m">>)
       \/ contains(template, <<"s", "s">>)
    THEN format_date(template, now)
    ELSE IF contains(template, DateTag)
         THEN replace_date_tags(template, 1, now)
         ELSE template

(***************************************************************************)
(* replacement/mod.rs: ReplacementEngine::check_for_replacements.          *)
(* A snippet is [name, keyword, content, snippet_type, category, enabled]. *)
(***************************************************************************)
\* A plausible slip in the loop: the scan keeps going and the last match wins.
RECURSIVE match_index_last(_, _, _)
match_index_last(buf, snippets, i) ==
    IF i > Len(snippets) THEN 0
    ELSE LET later == match_index_last(buf, snippets, i + 1)
         IN  IF later # 0 THEN later
             ELSE IF snippets[i].enabled /\ ends_with(buf, snippets[i].keyword)
                  THEN i ELSE 0

\* A plausible slip in the loop: the per-snippet enabled filter is missing.
RECURSIVE match_index_unfiltered(_, _, _)
match_index_unfiltered(buf, snippets, i) ==
    IF i > Len(snippets) THEN 0
    ELSE IF ends_with(buf, snippets[i].keyword) THEN i
         ELSE match_index_unfiltered(buf, snippets, i + 1)

\* The loop of check_for_replacements from position i: the index of the first
\* enabled snippet whose keyword the buffer ends with, 0 when there is none.
RECURSIVE match_index(_, _, _)
match_index(buf, snippets, i) ==
    IF i > Len(snippets) THEN 0
    ELSE IF snippets[i].enabled /\ ends_with(buf, snippets[i].keyword) THEN i
         ELSE match_index(buf, snippets, i + 1)

\* The replacement text computed for a matched snippet.
snippet_replacement(snippet, now) ==
    IF snippet.snippet_type = "Static"
    THEN snippet.content
    ELSE format_dynamic_content(snippet.content, now)

check_for_replacements_ignores_enabled(buf, s, now) ==
    LET i == match_index_unfiltered(buf, s.snippets, 1)
    IN  IF i = 0 THEN None
        ELSE Some(snippet_replacement(s.snippets[i], now))

\* check_for_replacements: Option<String>, the replacement text alone.
check_for_replacements(buf, s, now) ==
    IF ~s.enabled THEN None
    ELSE LET i == match_index(buf, s.snippets, 1)
         IN  IF i = 0 THEN None
             ELSE Some(snippet_replacement(s.snippets[i], now))

(***************************************************************************)
(* replacement/mod.rs: the input-synthesis helpers.  The OS may reject any *)
(* injected event (SendInput returns fewer events than sent), so a helper  *)
(* is the set of its outcomes [ok, env]: the value it returns and the OS   *)
(* input state it leaves.  Delays are not modelled.                        *)
(***************************************************************************)
HighRiskMin == 5
HighRiskMax == 9
DirectInputMaxLen == 30
MaxSelectionAttempts == 2

\* UTF-8 width of a character; characters that are not one-character strings
\* stand for non-ASCII code points.
Utf8Len(c) ==
    CASE c = "U+00E9" -> 2
      [] c = "U+3042" -> 3
      [] c = "U+1F600" -> 4
      [] OTHER -> 1

is_ascii(c) == Utf8Len(c) = 1

\* str::len: the length in bytes.
RECURSIVE str_len(_)
str_len(s) == IF s = << >> THEN 0 ELSE Utf8Len(Head(s)) + str_len(Tail(s))

\* str::chars().count().
chars_count(s) == Len(s)

Envs(outcomes) == {o.env : o \in outcomes}
Bind(envs, F(_)) == UNION {F(e) : e \in envs}

key_down(e, k) == [e EXCEPT !.mods = @ \cup {k}, !.combo = TRUE]
key_up(e, k) == [e EXCEPT !.mods = @ \ {k}]

\* reset_modifier_keys: key-ups for Ctrl, Shift, Alt, LWin, RWin in one
\* SendInput; false when the OS took fewer than all of them.
reset_modifier_keys(e) ==
    {[ok |-> TRUE, env |-> [mods |-> {}, combo |-> FALSE, reset |-> TRUE]]}
        \cup {[ok |-> FALSE, env |-> [mods |-> m, combo |-> FALSE, reset |-> TRUE]] :
                 m \in SUBSET e.mods}

\* The failure exits that call reset_modifier_keys and return false.
reset_and_fail(e) == {[ok |-> FALSE, env |-> x] : x \in Envs(reset_modifier_keys(e))}

\* anchor_cursor_to_line: reset, then Home, End, Left, Right (results unchecked).
anchor_cursor_to_line(e) == {[ok |-> TRUE, env |-> x] : x \in Envs(reset_modifier_keys(e))}

\* stabilize_cursor_position: reset, then Left, Right (results unchecked).
stabilize_cursor_position(e) ==
    {[ok |-> TRUE, env |-> x] : x \in Envs(reset_modifier_keys(e))}

\* The body shared by the two paste helpers after their initial reset:
\* modifier down, key down, key up, modifier up, each checked.
modifier_combo(e, m) ==
    LET held == key_down(e, m)
    IN  reset_and_fail(e)                     \* modifier down rejected
        \cup reset_and_fail(key_up(held, m))  \* key rejected, modifier-up taken
        \cup reset_and_fail(held)             \* key or modifier-up rejected
        \cup {[ok |-> TRUE, env |-> key_up(held, m)]}

\* simulate_paste_simple: Ctrl+V.
simulate_paste_simple(e) ==
    Bind(Envs(reset_modifier_keys(e)), LAMBDA x : modifier_combo(x, "ctrl"))

\* simulate_paste_alternative: Shift+Insert.
simulate_paste_alternative(e) ==
    Bind(Envs(reset_modifier_keys(e)), LAMBDA x : modifier_combo(x, "shift"))

\* simulate_backspace: the loop `for i in 0..count` submits one Backspace
\* key-down/key-up pair per iteration, whether or not the OS accepts it.
backspace_pairs(count) == count

\* simulate_backspace: count backspace down/up pairs; `success` becomes false
\* at a rejected pair and the loop goes on.  rejected is the first pair the
\* OS rejected (0: none), accepted the number of pairs it took (the pairs
\* after the first rejected one are all rejected, or all taken).
simulate_backspace(e, count) ==
    {[ok |-> TRUE, env |-> e, rejected |-> 0, accepted |-> count]}
        \cup UNION {{[ok |-> FALSE, env |-> e, rejected |-> i, accepted |-> a] :
                        a \in {i - 1, count - 1}} : i \in 1..count}

\* char as u32: the code point of a character.
CodePoint(c) ==
    CASE c = "U+00E9" -> 233
      [] c = "U+3042" -> 12354
      [] c = "U+1F600" -> 128512
      [] \E i \in 1..Len(Lower) : Lower[i] = c ->
             96 + (CHOOSE i \in 1..Len(Lower) : Lower[i] = c)
      [] \E i \in 1..Len(Digits) : Digits[i] = c ->
             47 + (CHOOSE i \in 1..Len(Digits) : Digits[i] = c)
      [] c = "H" -> 72
      [] OTHER -> 32

\* `c as u16`: the low 16 bits.
as_u16(n) == n % 65536

\* wScan of the first n characters of txt: one of them is not the code point.
narrows(txt, n) == \E i \in 1..n : as_u16(CodePoint(txt[i])) # CodePoint(txt[i])

\* The focused control when n characters of txt arrive, and when n
\* characters before the caret go: those typed by the replacement first.
type_chars(tg, txt, n) ==
    [tg EXCEPT !.typed = @ + n, !.narrowed = @ \/ narrows(txt, n)]
remove_chars(tg, n) ==
    [tg EXCEPT !.typed = @ - Min(n, tg.typed), !.removed = @ + (n - Min(n, tg.typed))]

WithSent(outcomes, n) == {[ok |-> o.ok, env |-> o.env, sent |-> n] : o \in outcomes}

\* simulate_direct_char_input: one Unicode key event per character, false at
\* the first one rejected (one of the first MaxRejectAt); sent is the number
\* of characters taken.
simulate_direct_char_input(e, txt) ==
    {[ok |-> TRUE, env |-> e, sent |-> Len(txt)]}
        \cup {[ok |-> FALSE, env |-> e, sent |-> k - 1] :
                 k \in 1..Min(Len(txt), MaxRejectAt)}

\* simulate_safe_direct_input and simulate_safe_direct_input_with_longer_waits:
\* reset, then one Unicode key event per character.
simulate_safe_direct_input(e, txt) ==
    Bind(Envs(reset_modifier_keys(e)), LAMBDA x : simulate_direct_char_input(x, txt))

\* perform_selection_replacement: reset, anchor, stabilise, Shift down,
\* Left x keyword_length, Shift up, anchor, type the text, anchor.
perform_selection_replacement(e, txt, len) ==
    LET prepared == Bind(Bind(Envs(reset_modifier_keys(e)),
                              LAMBDA x : Envs(anchor_cursor_to_line(x))),
                         LAMBDA x : Envs(stabilize_cursor_position(x)))
        typed(x) == LET t == simulate_safe_direct_input(x, txt)
                    IN  {o \in t : ~o.ok}
                        \cup UNION {WithSent(anchor_cursor_to_line(o.env), o.sent) :
                                       o \in {q \in t : q.ok}}
        selected(x) ==
            LET held == key_down(x, "shift")
            IN  WithSent(reset_and_fail(x), 0)          \* Shift down rejected
                \cup WithSent(reset_and_fail(held), 0)  \* a Left event or Shift up
                                                       \* rejected
                \cup Bind(Envs(anchor_cursor_to_line(key_up(held, "shift"))), typed)
    IN  Bind(prepared, selected)

selection_exhausted_late(a) == a > MaxSelectionAttempts

\* `for attempt in 1..=2`: the pass that just failed was the last one.
selection_exhausted(a) == a >= MaxSelectionAttempts

is_high_risk_length_unbounded(len) == len >= HighRiskMin

is_high_risk_length(len) == len >= HighRiskMin /\ len <= HighRiskMax

direct_input_always(txt) == TRUE

\* The guard of the direct-injection strategy.
direct_input_applies(txt) ==
    str_len(txt) <= DirectInputMaxLen /\ \A i \in 1..Len(txt) : is_ascii(txt[i])

(***************************************************************************)
(* config/mod.rs: ConfigManager.  Snippet names and categories are         *)
(* sequences of characters like every other string; a character outside    *)
(* ASCII is written as its code point.                                     *)
(***************************************************************************)
\* A plausible slip: the ',' replacement is left out of the chain.
sanitize_keyword_keeps_comma(k) ==
    replace(replace(k, <<"=">>, <<"_">>), <<";">>, <<"_">>)

\* config/mod.rs, ui/snippet_editor.rs: the keyword sanitisation
\* replace('=', "_").replace(';', "_").replace(',', "_").
sanitize_keyword(k) ==
    replace(replace(replace(k, <<"=">>, <<"_">>), <<";">>, <<"_">>), <<",">>, <<"_">>)

\* ConfigManager::new: the legacy Japanese snippet names, put into English.
translate_name(name) ==
    CASE name = <<"U+4ECA", "U+65E5", "U+306E", "U+65E5", "U+4ED8", " ", "(", "Y", "Y", "Y", "Y", "/",
              "M", "M", "/", "D", "D", ")">>
          -> <<"T", "o", "d", "a", "y", "'", "s", " ", "D", "a", "t", "e",
               " ", "(", "Y", "Y", "Y", "Y", "/", "M", "M", "/", "D", "D",
               ")">>
      [] name = <<"U+4ECA", "U+65E5", "U+306E", "U+65E5", "U+4ED8", " ", "(", "Y", "Y", "Y", "Y", "M",
              "M", "D", "D", ")">>
          -> <<"T", "o", "d", "a", "y", "'", "s", " ", "D", "a", "t", "e",
               " ", "(", "Y", "Y", "Y", "Y", "M", "M", "D", "D", ")">>
      [] name = <<"U+73FE", "U+5728", "U+6642", "U+523B">>
          -> <<"C", "u", "r", "r", "e", "n", "t", " ", "T", "i", "m", "e">>
      [] name = <<"U+30BF", "U+30A4", "U+30E0", "U+30B9", "U+30BF", "U+30F3", "U+30D7">>
          -> <<"T", "i", "m", "e", "s", "t", "a", "m", "p">>
      [] OTHER -> name

\* ConfigManager::new: the legacy Japanese categories, put into English.
translate_category(category) ==
    CASE category = <<"U+65E5", "U+4ED8">>
          -> <<"D", "a", "t", "e">>
      [] category = <<"U+6642", "U+9593">>
          -> <<"T", "i", "m", "e">>
      [] category = <<"U+30C6", "U+30F3", "U+30D7", "U+30EC", "U+30FC", "U+30C8">>
          -> <<"T", "e", "m", "p", "l", "a", "t", "e", "s">>
      [] OTHER -> category

\* A plausible slip in the loop: only the first snippet is sanitised.
sanitize_snippets_first_only(snippets) ==
    [i \in 1..Len(snippets) |->
        IF i = 1
        THEN [snippets[i] EXCEPT !.keyword = sanitize_keyword(@)]
        ELSE snippets[i]]

\* The loop of update_settings (and the last step of the loop of new): every
\* snippet's keyword is sanitised, nothing else is touched.
sanitize_snippets(snippets) ==
    [i \in 1..Len(snippets) |-> [snippets[i] EXCEPT !.keyword = sanitize_keyword(@)]]

\* The loop of ConfigManager::new over the loaded snippets.
migrate_loaded(loaded) ==
    [loaded EXCEPT !.snippets =
        sanitize_snippets([i \in 1..Len(loaded.snippets) |->
            [loaded.snippets[i] EXCEPT !.name = translate_name(@),
                                       !.category = translate_category(@)]])]

\* Settings::default().
DefaultSettings ==
    [enabled |-> TRUE,
     snippets |-> <<
      [name |-> <<"T", "o", "d", "a", "y", "'", "s", " ", "D", "a", "t",
                  "e", " ", "(", "Y", "Y", "Y", "Y", "/", "M", "M", "/",
                  "D", "D", ")">>,
       keyword |-> <<"d", "d", "a", "t", "e">>,
       content |-> <<"y", "y", "y", "y", "/", "M", "M", "/", "d", "d">>,
       snippet_type |-> "Dynamic",
       category |-> <<"D", "a", "t", "e">>,
       enabled |-> TRUE],
      [name |-> <<"T", "o", "d", "a", "y", "'", "s", " ", "D", "a", "t",
                  "e", " ", "(", "Y", "Y", "Y", "Y", "M", "M", "D", "D",
                  ")">>,
       keyword |-> <<"y", "y", "y", "y", "m", "m", "d", "d">>,
       content |-> <<"y", "y", "y", "y", "M", "M", "d", "d">>,
       snippet_type |-> "Dynamic",
       category |-> <<"D", "a", "t", "e">>,
       enabled |-> TRUE],
      [name |-> <<"C", "u", "r", "r", "e", "n", "t", " ", "T", "i", "m",
                  "e">>,
       keyword |-> <<"t", "t", "i", "m", "e">>,
       content |-> <<"H", "H", ":", "m", "m", ":", "s", "s">>,
       snippet_type |-> "Dynamic",
       category |-> <<"T", "i", "m", "e">>,
       enabled |-> TRUE],
      [name |-> <<"T", "i", "m", "e", "s", "t", "a", "m", "p">>,
       keyword |-> <<"t", "s", "t", "a", "m", "p">>,
       content |-> <<"y", "y", "y", "y", "-", "M", "M", "-", "d", "d", " ",
                     "H", "H", ":", "m", "m", ":", "s", "s">>,
       snippet_type |-> "Dynamic",
       category |-> <<"D", "a", "t", "e">>,
       enabled |-> TRUE],
      [name |-> <<"S", "i", "g", "n", "a", "t", "u", "r", "e">>,
       keyword |-> <<"s", "i", "g">>,
       content |-> <<"B", "e", "s", "t", " ", "r", "e", "g", "a", "r", "d",
                     "s", ",", "\n", "\n", "J", "o", "h", "n", " ", "D",
                     "o", "e", "\n", "E", "m", "a", "i", "l", ":", " ",
                     "e", "x", "a", "m", "p", "l", "e", "@", "e", "x", "a",
                     "m", "p", "l", "e", ".", "c", "o", "m", "\n", "P",
                     "h", "o", "n", "e", ":", " ", "5", "5", "5", "-", "1",
                     "2", "3", "-", "4", "5", "6", "7">>,
       snippet_type |-> "Static",
       category |-> <<"T", "e", "m", "p", "l", "a", "t", "e">>,
       enabled |-> TRUE]>>]

(***************************************************************************)
(* Inputs drawn by the specifications.                                     *)
(***************************************************************************)
SeqsUpTo(S, n) == UNION {[1..k -> S] : k \in 0..n}

Clocks ==
    {[year |-> 2024, month |-> 1, day |-> 2, hour |-> 3, minute |-> 4, second |-> 5],
     [year |-> 1999, month |-> 12, day |-> 31, hour |-> 23, minute |-> 59, second |-> 58]}

Snippet(kw, content, type, enabled) ==
    [name |-> <<"n">> \o kw, keyword |-> kw, content |-> content,
     snippet_type |-> type, category |-> <<"c">>, enabled |-> enabled]

NoSettings == [enabled |-> TRUE, snippets |-> << >>]

NoText == <<"<no text>">>
NoInput == [mods |-> {}, combo |-> FALSE, reset |-> FALSE]

\* The variables of a part of the program that a specification does not drive.
NoReplace == [called |-> FALSE, keyword |-> << >>, before |-> << >>, ret |-> FALSE]
NoTarget == [typed |-> 0, removed |-> 0, narrowed |-> FALSE]
NoEvent == [code |-> -1, flags |-> 0, pushes |-> 0, next |-> 0]
NoFile == [some |-> FALSE, val |-> NoSettings]

KbIdle ==
    /\ buffer = << >>
    /\ buffer_size = 0
    /\ pushed = << >>
    /\ last_replace = NoReplace
HookIdle ==
    /\ pc = "idle"
    /\ keyword = << >>
    /\ matched = 0
    /\ text = << >>
    /\ keyword_length = 0
    /\ attempt = 0
    /\ result = FALSE
    /\ event = NoEvent
OsIdle ==
    /\ input = NoInput
    /\ clipboard = NoText
    /\ original_clipboard = None
    /\ clip_before = NoText
    /\ paste_path = FALSE
    /\ backspaces = 0
    /\ bs_rejected = 0
    /\ target = NoTarget
\* No KeyboardHook was created and start() never ran.
LifeIdle ==
    /\ hooks = [i \in 1..MaxHooks |-> [st |-> "none", hook |-> 0]]
    /\ registered = {}
    /\ installer = [h \in 1..MaxHandles |-> 0]
    /\ unhooked = [h \in 1..MaxHandles |-> 0]
    /\ global_refs = 0
    /\ ext_refs = [i \in 1..MaxHooks |-> [state |-> FALSE, engine |-> FALSE]]
FmtIdle ==
    /\ f_pc = "off"
    /\ f_template = << >>
    /\ f_now = CHOOSE c \in Clocks : TRUE
    /\ formatted = << >>
CfgIdle ==
    /\ cfg_pc = "off"
    /\ config_file = NoFile
    /\ supplied = NoSettings
    /\ cfg_settings = NoSettings
ConcIdle ==
    /\ cb = [t \in 1..MaxCallbacks |-> [pc |-> "idle", keyword |-> << >>, text |-> << >>]]
    /\ locks = [state |-> 0, engine |-> 0]
MatchIdle ==
    /\ m_pc = "off"
    /\ m_buffer = << >>
    /\ m_now = CHOOSE c \in Clocks : TRUE
    /\ m_result = None

(***************************************************************************)
(* SpecKb: the KeyboardState API driven directly, as the unit tests do.    *)
(***************************************************************************)
KbChars == {"a", "b", "\n", "\r"}
KbMsgs == {WM_KEYDOWN, WM_KEYUP, WM_SYSKEYDOWN}
KbVks == {13, 65, 66}

KbInit ==
    /\ ConcIdle
    /\ buffer_size \in 0..MaxBufferSize
    /\ buffer = << >>
    /\ pushed = << >>
    /\ last_replace = NoReplace
    /\ settings = NoSettings
    /\ MatchIdle
    /\ HookIdle
    /\ OsIdle
    /\ LifeIdle
    /\ FmtIdle
    /\ CfgIdle

KbAddChar ==
    \E c \in KbChars :
        /\ Len(pushed) < MaxPushes
        /\ buffer' = add_char(buffer, buffer_size, c)
        /\ pushed' = Append(pushed, c)
        /\ last_replace' = NoReplace
        /\ UNCHANGED <<buffer_size, settings, pureVars, hookVars, osVars,
                       event, lifeVars>>

KbProcessKeyEvent ==
    \E msg \in KbMsgs, vk \in KbVks :
        /\ Len(pushed) < MaxPushes
        /\ buffer' = process_key_event_kb(buffer, buffer_size, msg, vk)
        /\ pushed' = pushed \o KeyEventPushes(msg, vk)
        /\ last_replace' = NoReplace
        /\ UNCHANGED <<buffer_size, settings, pureVars, hookVars, osVars,
                       event, lifeVars>>

KbClearBuffer ==
    /\ buffer' = clear_buffer(buffer)
    /\ pushed' = << >>
    /\ last_replace' = NoReplace
    /\ UNCHANGED <<buffer_size, settings, pureVars, hookVars, osVars,
                   event, lifeVars>>

KbKeywords == SeqsUpTo({"a", "b"}, 2)

\* replace_keyword called with a drawn keyword; the history restarts from
\* the buffer that is left.
KbReplaceKeyword ==
    \E kw \in KbKeywords :
        LET r == replace_keyword(buffer, kw)
        IN  /\ buffer' = r.buf
            /\ pushed' = IF r.ret THEN r.buf ELSE pushed
            /\ last_replace' = [called |-> TRUE, keyword |-> kw,
                                before |-> buffer, ret |-> r.ret]
            /\ UNCHANGED <<buffer_size, settings, pureVars, hookVars, osVars,
                           event, lifeVars>>

KbNext == KbAddChar \/ KbProcessKeyEvent \/ KbClearBuffer \/ KbReplaceKeyword

SpecKb == KbInit /\ [][KbNext]_vars

(***************************************************************************)
(* SpecMatch: check_for_replacements called on a drawn buffer and a drawn  *)
(* snippet list, as the unit test does.                                    *)
(***************************************************************************)
MatchChars == {"b", "=", "_"}
MatchKeywords == {<<"b">>, <<"=", "b">>, <<"_", "b">>}

MatchPool ==
    {Snippet(k, <<"r">> \o k, "Static", e) : k \in MatchKeywords, e \in BOOLEAN}
        \cup {Snippet(<<"b">>, <<"H", "H", ":", "m", "m">>, "Dynamic", TRUE)}

MatchInit ==
    /\ ConcIdle
    /\ KbIdle
    /\ HookIdle
    /\ OsIdle
    /\ LifeIdle
    /\ FmtIdle
    /\ CfgIdle
    /\ settings \in [enabled : BOOLEAN, snippets : SeqsUpTo(MatchPool, MaxSnippets)]
    /\ m_pc = "ready"
    /\ m_buffer = << >>
    /\ m_now = CHOOSE c \in Clocks : TRUE
    /\ m_result = None

MatchCheck ==
    \E b \in SeqsUpTo(MatchChars, MaxCandidateLen), now \in Clocks :
        /\ m_pc = "ready"
        /\ m_pc' = "done"
        /\ m_buffer' = b
        /\ m_now' = now
        /\ m_result' = check_for_replacements(b, settings, now)
        /\ UNCHANGED <<kbVars, settings, concVars, hookVars, osVars, event, lifeVars,
                       fmtVars, cfgVars>>

MatchNext == MatchCheck

SpecMatch == MatchInit /\ [][MatchNext]_vars

(***************************************************************************)
(* SpecFmt: format_dynamic_content called on a drawn template, as the unit *)
(* tests do.  Templates are built from segments, and the tests' templates  *)
(* are added.                                                              *)
(***************************************************************************)
FmtSegments ==
    {DateTag, <<"}">>, <<"H", "H">>, <<"d", "d">>, <<"y", "y">>, <<"a">>, <<":">>}

RECURSIVE Concat(_)
Concat(segs) == IF segs = << >> THEN << >> ELSE Head(segs) \o Concat(Tail(segs))

TimeTemplate ==
    DateTag \o <<"H", "H", ":", "m", "m", ":", "s", "s", "}">>
DateTemplate ==
    DateTag \o <<"y", "y", "y", "y", "M", "M", "d", "d", "}">>
MultiTemplate ==
    <<"D", "a", "t", "e", ":", " ">>
        \o DateTag \o <<"y", "y", "y", "y", "/", "M", "M", "/", "d", "d", "}">>
        \o <<" ", "T", "i", "m", "e", ":", " ">> \o TimeTemplate
PlainTemplate == <<"P", "l", "a", "i", "n", " ", "t", "e", "x", "t">>

FmtTemplates ==
    {Concat(segs) : segs \in SeqsUpTo(FmtSegments, MaxSegments)}
        \cup {TimeTemplate, DateTemplate, MultiTemplate, PlainTemplate}

FmtInit ==
    /\ ConcIdle
    /\ KbIdle
    /\ settings = NoSettings
    /\ MatchIdle
    /\ HookIdle
    /\ OsIdle
    /\ LifeIdle
    /\ CfgIdle
    /\ f_pc = "ready"
    /\ f_template \in FmtTemplates
    /\ f_now = CHOOSE c \in Clocks : TRUE
    /\ formatted = << >>

FmtFormat ==
    \E now \in Clocks :
        /\ f_pc = "ready"
        /\ f_pc' = "done"
        /\ f_now' = now
        /\ formatted' = format_dynamic_content(f_template, now)
        /\ UNCHANGED <<kbVars, settings, concVars, matchVars, cfgVars, hookVars, osVars,
                       event, lifeVars, f_template>>

FmtNext == FmtFormat

SpecFmt == FmtInit /\ [][FmtNext]_vars

(***************************************************************************)
(* SpecCfg: one ConfigManager: new() over a settings.json that may or may  *)
(* not exist, then update_settings with drawn settings.                    *)
(***************************************************************************)
File(x) == [some |-> TRUE, val |-> x]

LegacyName == <<"U+73FE", "U+5728", "U+6642", "U+523B">>
LegacyCategory == <<"U+6642", "U+9593">>

CfgPool ==
    {Snippet(<<"a">>, <<"r">>, "Static", TRUE),
     Snippet(<<"=", "a">>, <<"r">>, "Static", FALSE),
     [Snippet(<<";", ",">>, <<"H", "H">>, "Dynamic", TRUE)
          EXCEPT !.name = LegacyName, !.category = LegacyCategory]}

CfgSettings == [enabled : {TRUE}, snippets : SeqsUpTo(CfgPool, MaxSnippets)]

CfgInit ==
    /\ ConcIdle
    /\ KbIdle
    /\ settings = NoSettings
    /\ MatchIdle
    /\ FmtIdle
    /\ HookIdle
    /\ OsIdle
    /\ LifeIdle
    /\ cfg_pc = "none"
    /\ config_file \in {NoFile} \cup {File(x) : x \in CfgSettings}
    /\ supplied = NoSettings
    /\ cfg_settings = NoSettings

\* ConfigManager::new returning Ok: an existing file is read and migrated in
\* memory; without a file the defaults are written and kept.
ConfigManagerNew ==
    /\ cfg_pc = "none"
    /\ cfg_pc' = "loaded"
    /\ IF config_file.some
       THEN /\ supplied' = config_file.val
            /\ cfg_settings' = migrate_loaded(config_file.val)
            /\ UNCHANGED config_file
       ELSE /\ supplied' = DefaultSettings
            /\ cfg_settings' = DefaultSettings
            /\ config_file' = File(DefaultSettings)
    /\ UNCHANGED <<kbVars, settings, concVars, matchVars, fmtVars, hookVars, osVars,
                   event, lifeVars>>

\* ConfigManager::update_settings: the keywords are sanitised, the settings
\* are kept, and save() writes the file or fails.
UpdateSettings ==
    \E new \in CfgSettings, saved \in BOOLEAN :
        /\ cfg_pc \in {"loaded", "updated"}
        /\ cfg_pc' = "updated"
        /\ supplied' = new
        /\ cfg_settings' = [new EXCEPT !.snippets = sanitize_snippets(@)]
        /\ config_file' = IF saved THEN File(cfg_settings') ELSE config_file
        /\ UNCHANGED <<kbVars, settings, concVars, matchVars, fmtVars, hookVars, osVars,
                       event, lifeVars>>

CfgNext == ConfigManagerNew \/ UpdateSettings

SpecCfg == CfgInit /\ [][CfgNext]_vars

(***************************************************************************)
(* Spec: the hook callback (keyboard/hook.rs) on the hook thread, with the *)
(* replacement it starts (perform_replacement_with_backspace) running to   *)
(* its return before the callback returns.  The hook is installed and both *)
(* weak references resolve.                                                *)
(***************************************************************************)
LLKHF_INJECTED == 16

is_injected_never(flags) == FALSE

\* kb.flags & LLKHF_INJECTED != 0
is_injected(flags) == (flags \div LLKHF_INJECTED) % 2 = 1

HookMsgs == {WM_KEYDOWN, WM_KEYUP}
HookVks == {13, 65, 66}
HookCodes == {-1, 0}
HookFlags == {0, LLKHF_INJECTED}
UserClip == <<"u">>
LongText == [i \in 1..(DirectInputMaxLen + 1) |-> "x"]

HookSettings ==
    {[enabled |-> TRUE,
      snippets |-> <<Snippet(<<"a", "b">>, <<"h", "i">>, "Static", TRUE)>>],
     [enabled |-> TRUE,
      snippets |-> <<Snippet(<<"b", "b">>, <<"H", "H">>, "Dynamic", FALSE),
                     Snippet(<<"b">>, <<"U+3042">>, "Static", TRUE)>>],
     [enabled |-> TRUE,
      snippets |-> <<Snippet(<<"b", "a">>, LongText, "Static", TRUE),
                     Snippet(<<"b", "b">>, <<"H", "H">>, "Dynamic", TRUE)>>],
     [enabled |-> FALSE,
      snippets |-> <<Snippet(<<"b">>, <<"h", "i">>, "Static", TRUE)>>]}

\* App::new: the keyboard state of capacity buffer_size, one KeyboardHook
\* created over clones of the two Arcs and started; the UI state holds the
\* other clones.
Init ==
    /\ ConcIdle
    /\ buffer = << >>
    /\ buffer_size = HookBufferSize
    /\ pushed = << >>
    /\ last_replace = NoReplace
    /\ settings \in HookSettings
    /\ MatchIdle
    /\ FmtIdle
    /\ CfgIdle
    /\ HookIdle
    /\ input = NoInput
    /\ clipboard \in {NoText, UserClip}
    /\ original_clipboard = None
    /\ clip_before = NoText
    /\ paste_path = FALSE
    /\ backspaces = 0
    /\ bs_rejected = 0
    /\ target = NoTarget
    /\ hooks = [i \in 1..MaxHooks |->
                   IF i = 1 THEN [st |-> "live", hook |-> 1]
                   ELSE [st |-> "none", hook |-> 0]]
    /\ registered = {1}
    /\ installer = [h \in 1..MaxHandles |-> IF h = 1 THEN 1 ELSE 0]
    /\ unhooked = [h \in 1..MaxHandles |-> 0]
    /\ global_refs = 1
    /\ ext_refs = [i \in 1..MaxHooks |-> [state |-> i = 1, engine |-> i = 1]]

\* An Arc given to KeyboardHook::new(i) lives while the instance or its
\* creator holds a clone.
arc_alive(i, which) == hooks[i].st = "live" \/ ext_refs[i][which]

upgrade_dangling(which) == TRUE

\* GLOBAL_*.get().and_then(|w| w.upgrade()) yields Some.
upgrade(which) == global_refs # 0 /\ arc_alive(global_refs, which)

call_next_hook_swallowed(n) == n

\* CallNextHookEx(None, code, wparam, lparam): one more call made.
call_next_hook(n) == n + 1

\* What process_key_event (hook.rs) finds for an event: the buffer after the
\* key was processed, the candidate, and the matcher's answer.
hook_match(msg, vk, now) ==
    LET buf == process_key_event_kb(buffer, buffer_size, msg, vk)
        cand == get_keyword_candidate(buf)
    IN  [buf |-> buf,
         cand |-> cand,
         hit |-> IF should_check_replacement(buf) /\ cand # << >>
                 THEN check_for_replacements(cand, settings, now)
                 ELSE None]

\* keyboard_hook_proc and process_key_event up to the call of
\* perform_replacement_with_backspace (or to the callback's return when the
\* event is passed on or nothing matched).
keyboard_hook_proc(code, flags, msg, vk, now) ==
    /\ pc = "idle"
    /\ registered # {}
    /\ IF code < 0 \/ is_injected(flags)
             \/ ~(upgrade("state") /\ upgrade("engine"))
       THEN event' = [code |-> code, flags |-> flags, pushes |-> 0,
                      next |-> call_next_hook(0)]
       ELSE event' = [code |-> code, flags |-> flags,
                      pushes |-> Len(KeyEventPushes(msg, vk)),
                      next |-> IF hook_match(msg, vk, now).hit.some
                               THEN 0 ELSE call_next_hook(0)]
    /\ IF code < 0 \/ is_injected(flags)
             \/ ~(upgrade("state") /\ upgrade("engine"))
       THEN UNCHANGED <<kbVars, settings, pureVars, lifeVars, pc, keyword,
                        matched, text, keyword_length, attempt, result, osVars>>
       ELSE LET m == hook_match(msg, vk, now)
            IN  /\ Len(pushed \o KeyEventPushes(msg, vk)) <= MaxPushes
                /\ IF m.hit.some
                   THEN /\ buffer' = clear_buffer(m.buf)
                        /\ pushed' = << >>
                        /\ pc' = "perform"
                        /\ keyword' = m.cand
                        /\ matched' = match_index(m.cand, settings.snippets, 1)
                        /\ text' = m.hit.val
                        /\ keyword_length' = str_len(m.cand)
                        /\ attempt' = 0
                        /\ result' = FALSE
                        /\ input' = [input EXCEPT !.combo = FALSE, !.reset = FALSE]
                        /\ original_clipboard' = None
                        /\ clip_before' = clipboard
                        /\ paste_path' = FALSE
                        /\ backspaces' = 0
                        /\ bs_rejected' = 0
                        /\ target' = NoTarget
                        /\ UNCHANGED <<buffer_size, last_replace, settings,
                                       pureVars, lifeVars, clipboard>>
                   ELSE /\ buffer' = m.buf
                        /\ pushed' = pushed \o KeyEventPushes(msg, vk)
                        /\ UNCHANGED <<buffer_size, last_replace, settings,
                                       pureVars, lifeVars, pc, keyword, matched,
                                       text, keyword_length, attempt, result,
                                       osVars>>

\* The OS delivers a keyboard event to the installed hook procedure.
HookKeyEvent ==
    \E code \in HookCodes, flags \in HookFlags, msg \in HookMsgs,
       vk \in HookVks, now \in Clocks :
        keyboard_hook_proc(code, flags, msg, vk, now)

\* perform_replacement_with_backspace, entry: the high-risk band decides
\* whether the selection strategy is tried first.
PerformEnter ==
    /\ pc = "perform"
    /\ IF is_high_risk_length(keyword_length)
       THEN pc' = "selection" /\ attempt' = 1
       ELSE pc' = "backspace" /\ UNCHANGED attempt
    /\ UNCHANGED <<kbVars, settings, pureVars, lifeVars, event,
                   keyword, matched, text, keyword_length, result, osVars>>

\* One pass of the selection loop: perform_selection_replacement, and on
\* failure reset_modifier_keys before the next pass or the backspace path.
SelectionAttempt ==
    \E o \in perform_selection_replacement(input, text, keyword_length) :
        /\ pc = "selection"
        /\ target' = type_chars(IF o.sent >= 1
                                THEN remove_chars(target, keyword_length)
                                ELSE target, text, o.sent)
        /\ IF o.ok
           THEN /\ input' = o.env
                /\ result' = TRUE
                /\ pc' = "returned"
                /\ UNCHANGED attempt
           ELSE /\ input' \in Envs(reset_modifier_keys(o.env))
                /\ UNCHANGED result
                /\ IF selection_exhausted(attempt)
                   THEN pc' = "backspace" /\ UNCHANGED attempt
                   ELSE pc' = "selection" /\ attempt' = attempt + 1
        /\ UNCHANGED <<kbVars, settings, pureVars, lifeVars, event, backspaces,
                       bs_rejected,
                       keyword, matched, text,
                       keyword_length, clipboard, original_clipboard,
                       clip_before, paste_path>>

\* The erase phase: simulate_backspace, then for a high-risk length the
\* cursor stabilisation and anchoring, then the choice of insertion strategy.
Backspace ==
    \E o \in simulate_backspace(input, keyword_length) :
        /\ pc = "backspace"
        /\ backspaces' = backspaces + backspace_pairs(keyword_length)
        /\ bs_rejected' = o.rejected
        /\ target' = remove_chars(target, o.accepted)
        /\ IF ~o.ok
           THEN /\ result' = FALSE
                /\ pc' = "returned"
                /\ input' = o.env
           ELSE /\ UNCHANGED result
                /\ input' \in (IF is_high_risk_length(keyword_length)
                               THEN Bind(Envs(stabilize_cursor_position(o.env)),
                                         LAMBDA x : Envs(anchor_cursor_to_line(x)))
                               ELSE {o.env})
                /\ pc' = IF direct_input_applies(text) THEN "direct" ELSE "clipboard"
        /\ UNCHANGED <<kbVars, settings, pureVars, lifeVars, event,
                       keyword, matched, text,
                       keyword_length, attempt, clipboard, original_clipboard,
                       clip_before, paste_path>>

\* Direct character injection of a short ASCII text.
DirectInput ==
    \E o \in (IF is_high_risk_length(keyword_length)
              THEN simulate_safe_direct_input(input, text)
              ELSE simulate_direct_char_input(input, text)) :
        /\ pc = "direct"
        /\ target' = type_chars(target, text, o.sent)
        /\ IF o.ok
           THEN /\ input' \in (IF is_high_risk_length(keyword_length)
                               THEN Envs(anchor_cursor_to_line(o.env))
                               ELSE {o.env})
                /\ result' = TRUE
                /\ pc' = "returned"
           ELSE /\ input' = o.env
                /\ UNCHANGED result
                /\ pc' = "clipboard"
        /\ UNCHANGED <<kbVars, settings, pureVars, lifeVars, event, backspaces,
                       bs_rejected,
                       keyword, matched, text,
                       keyword_length, attempt, clipboard, original_clipboard,
                       clip_before, paste_path>>

\* The clipboard path, first part: Clipboard::new, get_text, set_text.
ClipboardSet ==
    \E opened \in BOOLEAN, got \in BOOLEAN, set \in BOOLEAN :
        /\ pc = "clipboard"
        /\ paste_path' = TRUE
        /\ IF ~opened
           THEN /\ result' = FALSE
                /\ pc' = "returned"
                /\ UNCHANGED <<clipboard, original_clipboard>>
           ELSE /\ original_clipboard' = IF got /\ clipboard # NoText
                                         THEN Some(clipboard) ELSE None
                /\ IF set
                   THEN /\ clipboard' = text
                        /\ pc' = "paste"
                        /\ UNCHANGED result
                   ELSE /\ result' = FALSE
                        /\ pc' = "returned"
                        /\ UNCHANGED clipboard
        /\ UNCHANGED <<kbVars, settings, pureVars, lifeVars, event, backspaces,
                       bs_rejected,
                       keyword, matched, text,
                       keyword_length, attempt, input, clip_before, target>>

\* The successful end of the clipboard path: for a high-risk length the
\* cursor is anchored, then true is returned.
paste_succeeded(e) ==
    /\ input' \in (IF is_high_risk_length(keyword_length)
                   THEN Envs(anchor_cursor_to_line(e))
                   ELSE {e})
    /\ result' = TRUE
    /\ pc' = "returned"
    /\ target' = [target EXCEPT !.typed = @ + chars_count(clipboard)]
    /\ UNCHANGED <<clipboard, original_clipboard>>

\* The clipboard path, second part: simulate_paste_simple.
PasteSimple ==
    \E o \in simulate_paste_simple(input) :
        /\ pc = "paste"
        /\ IF o.ok
           THEN paste_succeeded(o.env)
           ELSE /\ input' = o.env
                /\ pc' = "paste_alt"
                /\ UNCHANGED <<result, clipboard, original_clipboard, target>>
        /\ UNCHANGED <<kbVars, settings, pureVars, lifeVars, event, backspaces,
                       bs_rejected,
                       keyword, matched, text,
                       keyword_length, attempt, clip_before, paste_path>>

\* The clipboard path, third part: simulate_paste_alternative; when it fails
\* too, the saved clipboard text (if any) is set back, its result ignored.
PasteAlternative ==
    \E o \in simulate_paste_alternative(input), restored \in BOOLEAN :
        /\ pc = "paste_alt"
        /\ IF o.ok
           THEN paste_succeeded(o.env)
           ELSE /\ input' = o.env
                /\ clipboard' = IF original_clipboard.some /\ restored
                                THEN original_clipboard.val ELSE clipboard
                /\ result' = FALSE
                /\ pc' = "returned"
                /\ UNCHANGED <<original_clipboard, target>>
        /\ UNCHANGED <<kbVars, settings, pureVars, lifeVars, event, backspaces,
                       bs_rejected,
                       keyword, matched, text,
                       keyword_length, attempt, clip_before, paste_path>>

on_perform_result_ignored(res, buf, e) == {[buf |-> buf, env |-> e]}

\* process_key_event on the value perform_replacement_with_backspace
\* returned: on false clear_buffer and reset_modifier_keys (its result
\* unused); the outcomes [buf, env].
on_perform_result(res, buf, e) ==
    IF res
    THEN {[buf |-> buf, env |-> e]}
    ELSE {[buf |-> clear_buffer(buf), env |-> x] : x \in Envs(reset_modifier_keys(e))}

\* process_key_event after perform_replacement_with_backspace returned: on
\* failure the buffer is cleared and the modifier keys are reset; then
\* keyboard_hook_proc passes the event on and returns.
HookReturn ==
    /\ pc = "returned"
    /\ pc' = "idle"
    /\ \E o \in on_perform_result(result, buffer, input) :
           /\ buffer' = o.buf
           /\ input' = o.env
    /\ pushed' = IF result THEN pushed ELSE << >>
    /\ keyword' = << >>
    /\ matched' = 0
    /\ text' = << >>
    /\ keyword_length' = 0
    /\ attempt' = 0
    /\ result' = FALSE
    /\ original_clipboard' = None
    /\ bs_rejected' = 0
    /\ target' = NoTarget
    /\ event' = [event EXCEPT !.next = call_next_hook(@)]
    /\ UNCHANGED <<buffer_size, last_replace, settings, pureVars, lifeVars,
                   clipboard, clip_before, paste_path, backspaces>>

Next ==
    \/ HookKeyEvent
    \/ PerformEnter
    \/ SelectionAttempt
    \/ Backspace
    \/ DirectInput
    \/ ClipboardSet
    \/ PasteSimple
    \/ PasteAlternative
    \/ HookReturn

Spec == Init /\ [][Next]_vars

(***************************************************************************)
(* SpecPerform: perform_replacement_with_backspace called with a drawn     *)
(* text and a drawn keyword_length, run to its return.                     *)
(***************************************************************************)
PerformInit ==
    /\ ConcIdle
    /\ KbIdle
    /\ settings = NoSettings
    /\ MatchIdle
    /\ FmtIdle
    /\ CfgIdle
    /\ LifeIdle
    /\ pc = "perform"
    /\ keyword = << >>
    /\ matched = 0
    /\ text \in {<<"h", "i">>, LongText, <<"U+1F600", "U+3042">>}
    /\ keyword_length \in 0..MaxTriggerLength
    /\ attempt = 0
    /\ result = FALSE
    /\ event = NoEvent
    /\ input = NoInput
    /\ clipboard \in {NoText, UserClip}
    /\ original_clipboard = None
    /\ clip_before = clipboard
    /\ paste_path = FALSE
    /\ backspaces = 0
    /\ bs_rejected = 0
    /\ target = NoTarget

PerformNext ==
    \/ PerformEnter
    \/ SelectionAttempt
    \/ Backspace
    \/ DirectInput
    \/ ClipboardSet
    \/ PasteSimple
    \/ PasteAlternative

SpecPerform == PerformInit /\ [][PerformNext]_vars

\* The call runs on the hook thread without interruption: while a step of
\* the pipeline is possible, one is taken.
SpecPerformFair == PerformInit /\ [][PerformNext]_vars /\ WF_vars(PerformNext)

(***************************************************************************)
(* SpecLife: KeyboardHook instances created, started and dropped on the    *)
(* thread that runs the hook procedure, the Arcs' other holders letting    *)
(* go, and key events arriving while a hook is installed.                  *)
(***************************************************************************)
HookIds == 1..MaxHooks
Handles == 1..MaxHandles

\* The handle SetWindowsHookExW returns next (handles are not reused here).
fresh_handle == CHOOSE h \in Handles :
                    installer[h] = 0 /\ \A g \in Handles : installer[g] = 0 => h <= g

\* KeyboardHook::new over clones of two Arcs the creator keeps.
KeyboardHookNew(i) ==
    /\ pc = "idle"
    /\ hooks[i].st = "none"
    /\ hooks' = [hooks EXCEPT ![i] = [st |-> "live", hook |-> 0]]
    /\ ext_refs' = [ext_refs EXCEPT ![i] = [state |-> TRUE, engine |-> TRUE]]
    /\ UNCHANGED <<kbVars, settings, pureVars, hookVars, osVars, event,
                   registered, installer, unhooked, global_refs>>

\* KeyboardHook::start: the OnceCells keep the first value set; the handle
\* returned by SetWindowsHookExW overwrites the one stored; on its error the
\* function returns before the store.
KeyboardHookStart(i) ==
    \E ok \in BOOLEAN :
        /\ pc = "idle"
        /\ hooks[i].st = "live"
        /\ global_refs' = IF global_refs = 0 THEN i ELSE global_refs
        /\ IF ok /\ \E h \in Handles : installer[h] = 0
           THEN /\ registered' = registered \cup {fresh_handle}
                /\ installer' = [installer EXCEPT ![fresh_handle] = i]
                /\ hooks' = [hooks EXCEPT ![i].hook = fresh_handle]
           ELSE UNCHANGED <<registered, installer, hooks>>
        /\ UNCHANGED <<kbVars, settings, pureVars, hookVars, osVars, event,
                       unhooked, ext_refs>>

\* Drop for KeyboardHook: UnhookWindowsHookEx on the stored handle unless it
\* is 0; the instance's Arc clones go with it.
KeyboardHookDrop(i) ==
    /\ pc = "idle"
    /\ hooks[i].st = "live"
    /\ hooks' = [hooks EXCEPT ![i].st = "dropped"]
    /\ IF hooks[i].hook # 0
       THEN /\ registered' = registered \ {hooks[i].hook}
            /\ unhooked' = [unhooked EXCEPT ![hooks[i].hook] = @ + 1]
       ELSE UNCHANGED <<registered, unhooked>>
    /\ UNCHANGED <<kbVars, settings, pureVars, hookVars, osVars, event,
                   installer, global_refs, ext_refs>>

\* The creator (the UI state in App) drops its clone of one of the Arcs.
DropExternal(i) ==
    \E which \in {"state", "engine"} :
        /\ pc = "idle"
        /\ ext_refs[i][which]
        /\ ext_refs' = [ext_refs EXCEPT ![i][which] = FALSE]
        /\ UNCHANGED <<kbVars, settings, pureVars, hookVars, osVars, event,
                       hooks, registered, installer, unhooked, global_refs>>

LifeVks == {65}

\* A key-down delivered to the hook procedure.
LifeKeyEvent ==
    \E flags \in HookFlags, vk \in LifeVks :
        keyboard_hook_proc(0, flags, WM_KEYDOWN, vk, CHOOSE c \in Clocks : TRUE)

LifeInit ==
    /\ ConcIdle
    /\ buffer = << >>
    /\ buffer_size = HookBufferSize
    /\ pushed = << >>
    /\ last_replace = NoReplace
    /\ settings = [enabled |-> TRUE,
                   snippets |-> <<Snippet(<<"a", "a">>, <<"h", "i">>, "Static", TRUE)>>]
    /\ MatchIdle
    /\ FmtIdle
    /\ CfgIdle
    /\ HookIdle
    /\ OsIdle
    /\ LifeIdle

LifeNext ==
    \/ \E i \in HookIds : KeyboardHookNew(i)
    \/ \E i \in HookIds : KeyboardHookStart(i)
    \/ \E i \in HookIds : KeyboardHookDrop(i)
    \/ \E i \in HookIds : DropExternal(i)
    \/ LifeKeyEvent
    \/ PerformEnter
    \/ Backspace
    \/ DirectInput
    \/ ClipboardSet
    \/ PasteSimple
    \/ PasteAlternative
    \/ HookReturn

SpecLife == LifeInit /\ [][LifeNext]_vars

(***************************************************************************)
(* SpecRebind: as SpecLife, with MaxInstances KeyboardHook instances, so   *)
(* that one can be started after another was started or dropped.           *)
(***************************************************************************)
RebindIds == 1..MaxInstances

RebindInit ==
    /\ ConcIdle
    /\ buffer = << >>
    /\ buffer_size = HookBufferSize
    /\ pushed = << >>
    /\ last_replace = NoReplace
    /\ settings = [enabled |-> TRUE,
                   snippets |-> <<Snippet(<<"a", "a">>, <<"h", "i">>, "Static", TRUE)>>]
    /\ MatchIdle
    /\ FmtIdle
    /\ CfgIdle
    /\ HookIdle
    /\ OsIdle
    /\ hooks = [i \in RebindIds |-> [st |-> "none", hook |-> 0]]
    /\ registered = {}
    /\ installer = [h \in 1..MaxHandles |-> 0]
    /\ unhooked = [h \in 1..MaxHandles |-> 0]
    /\ global_refs = 0
    /\ ext_refs = [i \in RebindIds |-> [state |-> FALSE, engine |-> FALSE]]

RebindNext ==
    \/ \E i \in RebindIds : KeyboardHookNew(i)
    \/ \E i \in RebindIds : KeyboardHookStart(i)
    \/ \E i \in RebindIds : KeyboardHookDrop(i)
    \/ \E i \in RebindIds : DropExternal(i)
    \/ LifeKeyEvent
    \/ PerformEnter
    \/ Backspace
    \/ DirectInput
    \/ ClipboardSet
    \/ PasteSimple
    \/ PasteAlternative
    \/ HookReturn

SpecRebind == RebindInit /\ [][RebindNext]_vars

(***************************************************************************)
(* SpecUi: the hook callback with its replacement, and between callbacks   *)
(* the tray menu and the snippet list of the window changing the Settings  *)
(* the engine shares with them.                                            *)
(***************************************************************************)
UiVks == {65, 66}

UiInit ==
    /\ ConcIdle
    /\ buffer = << >>
    /\ buffer_size = HookBufferSize
    /\ pushed = << >>
    /\ last_replace = NoReplace
    /\ settings = [enabled |-> FALSE,
                   snippets |-> <<Snippet(<<"a", "b">>, <<"h", "i">>, "Static", FALSE)>>]
    /\ MatchIdle
    /\ FmtIdle
    /\ CfgIdle
    /\ HookIdle
    /\ OsIdle
    /\ hooks = [i \in 1..MaxHooks |->
                   IF i = 1 THEN [st |-> "live", hook |-> 1]
                   ELSE [st |-> "none", hook |-> 0]]
    /\ registered = {1}
    /\ installer = [h \in 1..MaxHandles |-> IF h = 1 THEN 1 ELSE 0]
    /\ unhooked = [h \in 1..MaxHandles |-> 0]
    /\ global_refs = 1
    /\ ext_refs = [i \in 1..MaxHooks |-> [state |-> i = 1, engine |-> i = 1]]

\* A key-down or key-up of a character key, typed by the user.
UiKeyEvent ==
    \E msg \in HookMsgs, vk \in UiVks :
        keyboard_hook_proc(0, 0, msg, vk, CHOOSE c \in Clocks : TRUE)

\* TrayIconState::process_events, menu item "Enable": the flag is flipped.
TrayToggleEnabled ==
    /\ pc = "idle"
    /\ settings' = [settings EXCEPT !.enabled = ~@]
    /\ UNCHANGED <<kbVars, pureVars, hookVars, osVars, event, lifeVars>>

\* The snippet list of the window: the checkbox of snippet i is flipped and
\* the list is stored in the shared Settings.
UiToggleSnippet(i) ==
    /\ pc = "idle"
    /\ settings' = [settings EXCEPT !.snippets[i].enabled = ~@]
    /\ UNCHANGED <<kbVars, pureVars, hookVars, osVars, event, lifeVars>>

UiNext ==
    \/ UiKeyEvent
    \/ TrayToggleEnabled
    \/ \E i \in 1..Len(settings.snippets) : UiToggleSnippet(i)
    \/ PerformEnter
    \/ Backspace
    \/ DirectInput
    \/ ClipboardSet
    \/ PasteSimple
    \/ PasteAlternative
    \/ HookReturn

SpecUi == UiInit /\ [][UiNext]_vars

(***************************************************************************)
(* SpecTry: ReplacementEngine::try_replace called with a drawn buffer, and *)
(* the synthesis it starts run to its return.                              *)
(***************************************************************************)
TryBuffers == {<<"a">>, <<"a", "b">>, <<"b", "a", "b">>}

TrySettings ==
    {[enabled |-> TRUE,
      snippets |-> <<Snippet(<<"a", "b">>, <<"h", "i">>, "Static", TRUE)>>],
     [enabled |-> TRUE,
      snippets |-> <<Snippet(<<"a", "b">>, <<"h", "i", "x">>, "Static", TRUE)>>],
     [enabled |-> TRUE,
      snippets |-> <<Snippet(<<"a", "b">>, <<"U+3042">>, "Static", TRUE)>>],
     [enabled |-> TRUE,
      snippets |-> <<Snippet(<<"a", "b">>, <<"h", "e", "l", "l", "o">>, "Static",
                             TRUE)>>]}

TryInit ==
    /\ ConcIdle
    /\ KbIdle
    /\ settings \in TrySettings
    /\ m_pc = "ready"
    /\ m_buffer \in TryBuffers
    /\ m_now = CHOOSE c \in Clocks : TRUE
    /\ m_result = None
    /\ FmtIdle
    /\ CfgIdle
    /\ HookIdle
    /\ OsIdle
    /\ LifeIdle

\* try_replace up to the call of perform_replacement_with_backspace, or to
\* its return of false when nothing matches.
TryReplace ==
    /\ m_pc = "ready"
    /\ pc = "idle"
    /\ LET r == check_for_replacements(m_buffer, settings, m_now)
           i == match_index(m_buffer, settings.snippets, 1)
       IN  /\ m_pc' = "done"
           /\ m_result' = r
           /\ matched' = IF r.some THEN i ELSE 0
           /\ IF r.some
              THEN /\ pc' = "perform"
                   /\ keyword' = settings.snippets[i].keyword
                   /\ text' = r.val
                   /\ keyword_length' = str_len(r.val)
              ELSE /\ pc' = "returned"
                   /\ UNCHANGED <<keyword, text, keyword_length>>
    /\ result' = FALSE
    /\ UNCHANGED <<kbVars, settings, m_buffer, m_now, fmtVars, cfgVars, concVars,
                   attempt, osVars, event, lifeVars>>

TryNext ==
    \/ TryReplace
    \/ PerformEnter
    \/ SelectionAttempt
    \/ Backspace
    \/ DirectInput
    \/ ClipboardSet
    \/ PasteSimple
    \/ PasteAlternative

SpecTry == TryInit /\ [][TryNext]_vars

(***************************************************************************)
(* SpecConc: process_key_event (keyboard/hook.rs) run by callbacks whose   *)
(* executions interleave, over the two Mutexes they share.  A callback's   *)
(* step is the code between two lock acquisitions.  The synthesis is the   *)
(* pipeline of Spec; here it is its extent and the value it returns.       *)
(***************************************************************************)
Callbacks == 1..MaxCallbacks
ConcVks == {65}

lock_free_always(which) == TRUE

\* Mutex::lock returns once no other guard of the Mutex is alive.
lock_free(which) == locks[which] = 0

ConcInit ==
    /\ buffer = << >>
    /\ buffer_size = HookBufferSize
    /\ pushed = << >>
    /\ last_replace = NoReplace
    /\ settings = [enabled |-> TRUE,
                   snippets |-> <<Snippet(<<"a", "a">>, <<"h", "i">>, "Static", TRUE)>>]
    /\ MatchIdle
    /\ FmtIdle
    /\ CfgIdle
    /\ HookIdle
    /\ OsIdle
    /\ LifeIdle
    /\ ConcIdle

\* The OS calls the hook procedure with a key-down of a character key.
CbArrive(t) ==
    /\ cb[t].pc = "idle"
    /\ cb' = [cb EXCEPT ![t].pc = "lock_state"]
    /\ UNCHANGED <<kbVars, settings, matchVars, fmtVars, cfgVars, hookVars,
                   osVars, event, lifeVars, locks>>

\* keyboard_state.lock(), then state.process_key_event.
CbLockState(t) ==
    \E vk \in ConcVks :
        /\ cb[t].pc = "lock_state"
        /\ lock_free("state")
        /\ Len(pushed) < MaxPushes
        /\ locks' = [locks EXCEPT !.state = t]
        /\ buffer' = process_key_event_kb(buffer, buffer_size, WM_KEYDOWN, vk)
        /\ pushed' = pushed \o KeyEventPushes(WM_KEYDOWN, vk)
        /\ cb' = [cb EXCEPT ![t].pc = "lock_engine"]
        /\ UNCHANGED <<buffer_size, last_replace, settings, matchVars, fmtVars,
                       cfgVars, hookVars, osVars, event, lifeVars>>

\* replacement_engine.lock(), the match, and on a hit clear_buffer and the
\* drop of both guards; without a hit both guards go at the end of their
\* scopes and the callback returns.
CbLockEngine(t) ==
    /\ cb[t].pc = "lock_engine"
    /\ lock_free("engine")
    /\ LET cand == get_keyword_candidate(buffer)
           hit == IF should_check_replacement(buffer) /\ cand # << >>
                  THEN check_for_replacements(cand, settings, CHOOSE c \in Clocks : TRUE)
                  ELSE None
       IN  IF hit.some
           THEN /\ buffer' = clear_buffer(buffer)
                /\ pushed' = << >>
                /\ cb' = [cb EXCEPT ![t] = [pc |-> "relock_engine",
                                            keyword |-> cand, text |-> hit.val]]
           ELSE /\ cb' = [cb EXCEPT ![t].pc = "idle"]
                /\ UNCHANGED <<buffer, pushed>>
    /\ locks' = [locks EXCEPT !.state = 0]
    /\ UNCHANGED <<buffer_size, last_replace, settings, matchVars, fmtVars,
                   cfgVars, hookVars, osVars, event, lifeVars>>

\* The second replacement_engine.lock(); its guard lives to the end of the
\* block that calls perform_replacement_with_backspace.
CbRelockEngine(t) ==
    /\ cb[t].pc = "relock_engine"
    /\ lock_free("engine")
    /\ locks' = [locks EXCEPT !.engine = t]
    /\ cb' = [cb EXCEPT ![t].pc = "perform"]
    /\ UNCHANGED <<kbVars, settings, matchVars, fmtVars, cfgVars, hookVars,
                   osVars, event, lifeVars>>

\* perform_replacement_with_backspace returns: on true the engine guard is
\* dropped and the callback returns, on false the failure branch is entered.
CbPerformReturn(t) ==
    \E ok \in BOOLEAN :
        /\ cb[t].pc = "perform"
        /\ IF ok
           THEN /\ cb' = [cb EXCEPT ![t] = [pc |-> "idle", keyword |-> << >>,
                                            text |-> << >>]]
                /\ locks' = [locks EXCEPT !.engine = 0]
           ELSE /\ cb' = [cb EXCEPT ![t].pc = "fail_lock_state"]
                /\ UNCHANGED locks
        /\ UNCHANGED <<kbVars, settings, matchVars, fmtVars, cfgVars, hookVars,
                       osVars, event, lifeVars>>

\* The failure branch: keyboard_state.lock(), clear_buffer, the guard
\* dropped; reset_modifier_keys; then the engine guard is dropped.
CbFailClear(t) ==
    /\ cb[t].pc = "fail_lock_state"
    /\ lock_free("state")
    /\ \E o \in on_perform_result(FALSE, buffer, input) :
           /\ buffer' = o.buf
           /\ input' = o.env
    /\ pushed' = << >>
    /\ locks' = [locks EXCEPT !.engine = 0]
    /\ cb' = [cb EXCEPT ![t] = [pc |-> "idle", keyword |-> << >>, text |-> << >>]]
    /\ UNCHANGED <<buffer_size, last_replace, settings, matchVars, fmtVars,
                   cfgVars, hookVars, event, lifeVars, clipboard,
                   original_clipboard, clip_before, paste_path, backspaces,
                   bs_rejected, target>>

ConcNext ==
    \/ \E t \in Callbacks : CbArrive(t)
    \/ \E t \in Callbacks : CbLockState(t)
    \/ \E t \in Callbacks : CbLockEngine(t)
    \/ \E t \in Callbacks : CbRelockEngine(t)
    \/ \E t \in Callbacks : CbPerformReturn(t)
    \/ \E t \in Callbacks : CbFailClear(t)

SpecConc == ConcInit /\ [][ConcNext]_vars

(***************************************************************************)
(* Claims about the keyword buffer.                                        *)
(***************************************************************************)
RECURSIVE AddAll(_, _, _)
AddAll(buf, size, cs) ==
    IF cs = << >> THEN buf
    ELSE AddAll(add_char(buf, size, Head(cs)), size, Tail(cs))

\* C1: for every sequence of add_char calls with no intervening clear, on a
\* buffer of any capacity N (0 included), the buffer holds at most N
\* characters and equals the last min(k, N) pushed characters in push order;
\* capacity 10 and the 15 pushes 'a'..'o' give "fghijklmno".
C1_BufferIsLastPushed ==
    /\ Len(buffer) <= buffer_size
    /\ get_buffer(buffer) = LastN(pushed, Min(Len(pushed), buffer_size))
    /\ get_keyword_candidate(buffer) = get_buffer(buffer)
    /\ AddAll(<< >>, 10, SubSeq(Lower, 1, 15))
         = <<"f", "g", "h", "i", "j", "k", "l", "m", "n", "o">>

\* C1 witness: more characters were pushed than the capacity holds, so the
\* oldest ones have been evicted.
C1_Witness ==
    /\ buffer_size = 2
    /\ Len(pushed) = 4
    /\ pushed[1] # pushed[3]
    /\ buffer = <<pushed[3], pushed[4]>>

\* C9 (as claimed): pushing a line terminator empties the buffer, so the
\* candidate never contains '\n' or '\r' nor any character pushed before the
\* most recent line terminator.
C9_NoLineTerminatorInCandidate ==
    /\ \A i \in 1..Len(buffer) : buffer[i] \notin {"\n", "\r"}
    /\ \A i \in 1..Len(pushed) :
          pushed[i] \in {"\n", "\r"} => Len(buffer) <= Len(pushed) - i
(***************************************************************************)
(* Claims about the matcher.                                               *)
(***************************************************************************)
\* The enabled snippets whose keyword the matcher's buffer ends with.
Matching == {i \in 1..Len(settings.snippets) :
                /\ settings.snippets[i].enabled
                /\ ends_with(m_buffer, settings.snippets[i].keyword)}

FirstMatching == CHOOSE i \in Matching : \A j \in Matching : i <= j

LongestMatching ==
    {i \in Matching : \A j \in Matching :
        Len(settings.snippets[j].keyword) <= Len(settings.snippets[i].keyword)}

\* C5 (as claimed): with the engine enabled, a hit is returned exactly when
\* some enabled snippet's keyword is a suffix of the candidate, and the hit
\* carries the replacement text together with the matched keyword; otherwise
\* nothing is returned.
C5_HitCarriesKeyword ==
    (m_pc = "done" /\ settings.enabled) =>
        /\ m_result.some <=> Matching # {}
        /\ m_result.some =>
              /\ "keyword" \in DOMAIN m_result
              /\ \E i \in Matching :
                    /\ m_result.keyword = settings.snippets[i].keyword
                    /\ m_result.val = snippet_replacement(settings.snippets[i], m_now)

\* C6: matching is order-driven: the result is none when no enabled snippet
\* matches (or the engine is disabled), and otherwise the replacement of the
\* enabled matching snippet that comes first in list order (its content, for
\* a Static snippet).
C6_FirstInListOrderWins ==
    m_pc = "done" =>
        IF ~settings.enabled \/ Matching = {}
        THEN m_result = None
        ELSE /\ m_result.some
             /\ settings.snippets[FirstMatching].snippet_type = "Static"
                   => m_result.val = settings.snippets[FirstMatching].content

\* C6 witness: two enabled Static snippets with different contents match and
\* the first one's content was returned.
C6_Witness ==
    /\ m_pc = "done"
    /\ settings.enabled
    /\ Matching = {1, 2}
    /\ settings.snippets[1].snippet_type = "Static"
    /\ settings.snippets[2].snippet_type = "Static"
    /\ settings.snippets[1].content # settings.snippets[2].content
    /\ m_result = Some(settings.snippets[1].content)

\* C7 (as claimed): when several enabled snippets match, the one with the
\* longest matching keyword is returned.
C7_LongestWins ==
    (m_pc = "done" /\ settings.enabled /\ Cardinality(Matching) >= 2) =>
        \E i \in LongestMatching :
            m_result = Some(snippet_replacement(settings.snippets[i], m_now))

\* C7 (amended): when several enabled snippets match, the one returned has the
\* longest matching keyword provided no matching snippet with a longer keyword
\* is listed after the first matching one.
C7_LongestWinsWhenListedFirst ==
    (/\ m_pc = "done" /\ settings.enabled /\ Cardinality(Matching) >= 2
     /\ FirstMatching \in LongestMatching) =>
        \E i \in LongestMatching :
            m_result = Some(snippet_replacement(settings.snippets[i], m_now))

\* C7 witness: two snippets of different keyword length match, the longer is
\* listed first and is the one returned.
C7_Witness ==
    /\ m_pc = "done"
    /\ settings.enabled
    /\ Matching = {1, 2}
    /\ Len(settings.snippets[1].keyword) > Len(settings.snippets[2].keyword)
    /\ m_result = Some(settings.snippets[1].content)
    /\ m_result # Some(settings.snippets[2].content)

\* C8 (as claimed): a snippet whose keyword is not a literal suffix of the
\* candidate still matches when the normalised candidate ends with the
\* normalised keyword.
C8_NormalizedFallbackMatches ==
    (m_pc = "done" /\ settings.enabled) =>
        ((\E i \in 1..Len(settings.snippets) :
             /\ settings.snippets[i].enabled
             /\ ends_with(sanitize_keyword(m_buffer),
                          sanitize_keyword(settings.snippets[i].keyword)))
         => m_result.some)
(***************************************************************************)
(* Claims about the hook callback and the synthesis pipeline.              *)
(***************************************************************************)
\* C2 (as claimed): when the hook starts a replacement, the number of
\* characters the synthesizer is asked to erase equals the character count of
\* the matched snippet keyword, not the length of the whole buffered candidate.
C2_EraseCountIsKeywordLength ==
    pc = "perform" =>
        keyword_length = chars_count(settings.snippets[matched].keyword)

\* C3 (as claimed): when perform_replacement_with_backspace returns, on every
\* exit path, reset_modifier_keys has been executed after the last modifier
\* key combination the pipeline synthesized.
C3_ResetAfterLastCombination ==
    pc = "returned" => ~input.combo

\* C4 (as claimed): after every replacement that took the clipboard path,
\* succeeded or failed, the clipboard holds what it held before the
\* replacement started.
C4_ClipboardRestored ==
    (pc = "returned" /\ paste_path) => clipboard = clip_before

\* C10: whenever the hook finds a match, the buffer has been cleared before
\* the synthesis starts and it stays empty while the replacement runs, so the
\* typed trigger cannot start a second replacement without new key-downs.
C10_BufferClearedBeforeSynthesis ==
    pc # "idle" => buffer = << >>

\* C10 witness: a replacement has been started for a buffered candidate that
\* ends with an enabled keyword, and the buffer is empty.
C10_Witness ==
    /\ pc = "perform"
    /\ matched # 0
    /\ Len(keyword) >= 2
    /\ ends_with(keyword, settings.snippets[matched].keyword)
    /\ buffer = << >>

(***************************************************************************)
(* Claims about the hook procedure and the KeyboardHook's lifetime.        *)
(***************************************************************************)
\* C11: a key event the OS marks as injected is discarded by the hook
\* procedure: the step that delivers it leaves the keyword buffer as it was
\* and starts no match and no replacement (no phase is entered, no input is
\* synthesized, the clipboard is not touched).
C11_InjectedEventDiscarded ==
    [][(pc = "idle" /\ event'.code >= 0 /\ event'.flags = LLKHF_INJECTED)
           => (/\ pc' = "idle"
               /\ UNCHANGED <<buffer, pushed, keyword, text, input, clipboard,
                              backspaces>>)]_vars

\* C11 witness: an injected event was delivered while the buffer held the
\* first character of the keyword "ab", and nothing was started.
C11_Witness ==
    /\ pc = "idle"
    /\ event = [code |-> 0, flags |-> LLKHF_INJECTED, pushes |-> 0, next |-> 1]
    /\ buffer = <<"a">>
    /\ \E i \in 1..Len(settings.snippets) : settings.snippets[i].keyword = <<"a", "b">>

\* C12: every handle installed by start() is uninstalled exactly once, at
\* the drop of the instance that installed it: no handle stays registered
\* once that instance is dropped, no handle is uninstalled twice, and none
\* is uninstalled that was never installed.
C12_HookUninstalledExactlyOnce ==
    /\ \A h \in registered : hooks[installer[h]].st # "dropped"
    /\ \A h \in Handles : unhooked[h] <= 1
    /\ \A h \in Handles : unhooked[h] > 0 => installer[h] # 0

\* The weak references do not both resolve.
Unresolved ==
    \/ global_refs = 0
    \/ \E which \in {"state", "engine"} : ~arc_alive(global_refs, which)

\* C13: while either weak reference fails to resolve, a delivery of a key
\* event to the hook procedure changes no buffer, starts no match or
\* replacement and synthesizes no input.
C13_UnresolvedCallbackIsNoOp ==
    [][(pc = "idle" /\ UNCHANGED lifeVars /\ Unresolved)
           => (/\ pc' = "idle"
               /\ UNCHANGED <<buffer, pushed, keyword, text, input, clipboard,
                              backspaces>>)]_vars

\* C13 witness: a hook is still installed, the buffer holds a typed
\* character, and a reference no longer resolves.
C13_Witness ==
    /\ pc = "idle"
    /\ registered # {}
    /\ Unresolved
    /\ buffer = <<"a">>
    /\ event = [code |-> 0, flags |-> 0, pushes |-> 0, next |-> 1]

(***************************************************************************)
(* Claims about the dynamic content formatter.                             *)
(***************************************************************************)
IsDigit(c) == \E i \in 1..Len(Digits) : Digits[i] = c

\* C14: format_dynamic_content("{date:HH:mm:ss}") is exactly 8 characters
\* of the form dd:dd:dd, with no brace and no "date:" left.
C14_TimeIsEightChars ==
    (f_pc = "done" /\ f_template = TimeTemplate)
        => /\ Len(formatted) = 8
           /\ \A i \in {1, 2, 4, 5, 7, 8} : IsDigit(formatted[i])
           /\ \A i \in {3, 6} : formatted[i] = ":"

\* The result the span-by-span reading gives: every {date:<pattern>} span
\* replaced by the formatted date of its own pattern, the text outside the
\* spans copied.
RECURSIVE SpanwiseFormat(_, _, _)
SpanwiseFormat(s, i, now) ==
    IF i > Len(s) THEN << >>
    ELSE LET body == i + Len(DateTag)
             close == find_close(s, body)
         IN  IF starts_with_at(s, i, DateTag) /\ close > body
             THEN format_date(SubSeq(s, body, close - 1), now)
                      \o SpanwiseFormat(s, close + 1, now)
             ELSE <<s[i]>> \o SpanwiseFormat(s, i + 1, now)

HasDateSpan(s) ==
    \E i \in 1..Len(s) :
        starts_with_at(s, i, DateTag) /\ find_close(s, i + Len(DateTag)) > i + Len(DateTag)

\* C15: for a template with {date:<pattern>} spans the result is the
\* literal segments unchanged with every span replaced by the formatted date
\* of its own pattern.
C15_SpansReplacedIndependently ==
    (f_pc = "done" /\ HasDateSpan(f_template))
        => formatted = SpanwiseFormat(f_template, 1, f_now)

HasPlaceholderToken(s) ==
    \E tok \in {<<"y", "y", "y", "y">>, <<"y", "y">>, <<"M", "M">>, <<"d", "d">>,
                 <<"H", "H">>, <<"m", "m">>, <<"s", "s">>} : contains(s, tok)

\* C16: a template with no placeholder token (yyyy, yy, MM, dd, HH, mm, ss)
\* and no {date:...} span is returned unchanged.
C16_PlainTemplateUnchanged ==
    (f_pc = "done" /\ ~HasPlaceholderToken(f_template) /\ ~HasDateSpan(f_template))
        => formatted = f_template

\* C16 witness: "{date:}" (an opening tag with an empty pattern, which is no
\* span) was formatted and came back unchanged.
C16_Witness ==
    /\ f_pc = "done"
    /\ f_template = DateTag \o <<"}">>
    /\ formatted = f_template

(***************************************************************************)
(* Claims about the keyword normalisation and the configuration manager.   *)
(***************************************************************************)
HasSpecialChar(k) == \E i \in 1..Len(k) : k[i] \in {"=", ";", ","}

\* C17: the keyword normalisation is idempotent and its result contains none
\* of '=', ';', ',': every keyword the manager holds is a normalised one,
\* normalising it again gives it back, and it has no such character.
C17_NormalizeIdempotent ==
    cfg_pc # "none" =>
        \A i \in 1..Len(cfg_settings.snippets) :
            LET s == supplied.snippets[i].keyword
            IN  /\ cfg_settings.snippets[i].keyword = sanitize_keyword(s)
                /\ sanitize_keyword(sanitize_keyword(s)) = sanitize_keyword(s)
                /\ ~HasSpecialChar(sanitize_keyword(s))

\* C17 witness: the keyword ";," was normalised to "__".
C17_Witness ==
    /\ cfg_pc = "updated"
    /\ Len(supplied.snippets) >= 1
    /\ supplied.snippets[1].keyword = <<";", ",">>
    /\ cfg_settings.snippets[1].keyword = <<"_", "_">>

\* C18 (as claimed): after new and after every update_settings no keyword
\* held by the manager contains '=', ';' or ',', and every other snippet
\* field is as supplied.
C18_KeywordsCleanOtherFieldsKept ==
    cfg_pc # "none" =>
        /\ Len(cfg_settings.snippets) = Len(supplied.snippets)
        /\ \A i \in 1..Len(cfg_settings.snippets) :
               /\ ~HasSpecialChar(cfg_settings.snippets[i].keyword)
               /\ [cfg_settings.snippets[i] EXCEPT !.keyword = supplied.snippets[i].keyword]
                      = supplied.snippets[i]

\* C18 (amended): after new and after every update_settings no keyword held
\* by the manager contains '=', ';' or ',', and content, type and enabled
\* flag are as supplied; name and category are as supplied after
\* update_settings, and after new they are the supplied ones with the legacy
\* Japanese names and categories put into English.
C18_KeywordsCleanFieldsKeptUpToMigration ==
    cfg_pc # "none" =>
        /\ Len(cfg_settings.snippets) = Len(supplied.snippets)
        /\ \A i \in 1..Len(cfg_settings.snippets) :
               LET held == cfg_settings.snippets[i]
                   given == supplied.snippets[i]
               IN  /\ ~HasSpecialChar(held.keyword)
                   /\ held.content = given.content
                   /\ held.snippet_type = given.snippet_type
                   /\ held.enabled = given.enabled
                   /\ cfg_pc = "updated" =>
                          held.name = given.name /\ held.category = given.category
                   /\ cfg_pc = "loaded" =>
                          /\ held.name = translate_name(given.name)
                          /\ held.category = translate_category(given.category)

\* C18 witness: a file with a legacy-named snippet of keyword ";," after a
\* snippet of keyword "=a" was loaded.
C18_Witness ==
    /\ cfg_pc = "loaded"
    /\ Len(supplied.snippets) = 2
    /\ supplied.snippets[1].keyword = <<"=", "a">>
    /\ supplied.snippets[2].name = LegacyName
    /\ cfg_settings.snippets[2].keyword = <<"_", "_">>
    /\ cfg_settings.snippets[2].name # LegacyName

(***************************************************************************)
(* Claims about KeyboardState::replace_keyword.                            *)
(***************************************************************************)
\* C19: replace_keyword(k, _) returns true and removes exactly the trailing
\* |k| characters when the buffer ends with k; otherwise it returns false
\* and leaves the buffer unchanged.
C19_ReplaceKeywordCutsSuffix ==
    last_replace.called =>
        LET k == last_replace.keyword
            b == last_replace.before
        IN  IF ends_with(b, k)
            THEN last_replace.ret /\ buffer = SubSeq(b, 1, Len(b) - Len(k))
            ELSE ~last_replace.ret /\ buffer = b

\* C19 witness: "b" was cut from the buffer "ab".
C19_Witness ==
    /\ last_replace.called
    /\ last_replace.ret
    /\ last_replace.keyword = <<"b">>
    /\ last_replace.before = <<"a", "b">>
    /\ buffer = <<"a">>

(***************************************************************************)
(* Claims about the number of backspaces.                                  *)
(***************************************************************************)
\* The ceiling the specification names for the erase count.
SafetyCeiling == 20

\* C20: the number of Backspace key-down/key-up pairs sent in one
\* replacement never exceeds the safety ceiling, whatever trigger length
\* reaches the synthesizer.
C20_BackspacesWithinCeiling == backspaces <= SafetyCeiling

(***************************************************************************)
(* Claims about a rejected backspace.                                      *)
(***************************************************************************)
\* C21: as soon as the OS rejects one injected Backspace event the erase
\* phase stops, so the pairs submitted number exactly the index of the
\* first rejected pair.
C21_NoBackspaceAfterRejection == bs_rejected # 0 => backspaces = bs_rejected

(***************************************************************************)
(* Claims about the locks held during the synthesis.                       *)
(***************************************************************************)
\* C22: while perform_replacement_with_backspace executes, the callback
\* running it holds no lock on the replacement engine.
C22_NoEngineLockDuringSynthesis ==
    \A t \in Callbacks : cb[t].pc = "perform" => locks.engine # t

\* C23: while a replacement runs, a key event that arrives can take the
\* keyword-buffer lock, and have its character pushed, without waiting for
\* the synthesis to finish.
C23_ArrivingEventGetsBufferLock ==
    \A t, u \in Callbacks :
        cb[t].pc = "perform" /\ cb[u].pc = "lock_state" => locks.state = 0

\* C24: under any interleaving of the callbacks at most one execution of
\* perform_replacement_with_backspace is in progress.
C24_OneReplacementAtATime ==
    Cardinality({t \in Callbacks : cb[t].pc = "perform"}) <= 1

\* C24: one callback runs the synthesis while another, whose event matched
\* too, waits for the engine.
C24_Witness ==
    \E t, u \in Callbacks :
        /\ cb[t].pc = "perform"
        /\ cb[u].pc = "relock_engine"
        /\ cb[u].text # << >>

(***************************************************************************)
(* Claims about the order of the strategies.                               *)
(***************************************************************************)
ShortAscii(txt) ==
    str_len(txt) <= DirectInputMaxLen /\ \A i \in 1..Len(txt) : is_ascii(txt[i])

\* C25: the insertion strategies run in the order direct injection (short
\* text only), Ctrl+V paste, Shift+Insert paste; each is entered only after
\* the earlier applicable ones failed; the first success returns true at
\* once, a successful direct injection leaving the clipboard alone; a failed
\* direct injection or Ctrl+V is always followed by the next strategy.
C25_InsertionOrder ==
    [][/\ (pc' = "direct" /\ pc # "direct")
            => pc = "backspace" /\ str_len(text) <= DirectInputMaxLen
       /\ (pc' = "clipboard" /\ pc # "clipboard")
            => pc = "direct" \/ (pc = "backspace" /\ ~ShortAscii(text))
       /\ (pc' = "paste" /\ pc # "paste") => pc = "clipboard"
       /\ (pc' = "paste_alt" /\ pc # "paste_alt") => pc = "paste"
       /\ (pc = "direct" /\ pc' # "direct")
            => \/ pc' = "returned" /\ result' /\ ~paste_path'
                    /\ clipboard' = clip_before
               \/ pc' = "clipboard" /\ ~result'
       /\ (pc = "paste" /\ pc' # "paste")
            => \/ pc' = "returned" /\ result'
               \/ pc' = "paste_alt" /\ ~result'
       /\ (pc = "paste_alt" /\ pc' # "paste_alt") => pc' = "returned"]_vars

\* C25: a short text whose direct injection and Ctrl+V paste both failed,
\* with Shift+Insert next.
C25_Witness == pc = "paste_alt" /\ ShortAscii(text) /\ clipboard = text

\* C26: a trigger length in the band 5..9 enters the selection strategy
\* first and runs it at most twice, a successful pass returning true; the
\* backspace path starts only after the second pass failed; outside the band
\* the selection strategy is never entered.
C26_SelectionFirstAtMostTwice ==
    [][/\ pc' = "selection"
            => /\ keyword_length \in HighRiskMin..HighRiskMax
               /\ attempt' \in 1..2
               /\ \/ pc = "perform" /\ attempt' = 1
                  \/ pc = "selection" /\ attempt' \in {attempt, attempt + 1}
       /\ (pc = "perform" /\ pc' # "perform")
            => IF keyword_length \in HighRiskMin..HighRiskMax
               THEN pc' = "selection" ELSE pc' = "backspace"
       /\ (pc = "selection" /\ pc' = "returned") => result'
       /\ (pc = "selection" /\ pc' = "backspace") => attempt = 2]_vars

\* C26: both selection passes failed and the backspace path is next.
C26_Witness ==
    pc = "backspace" /\ attempt = 2 /\ keyword_length \in HighRiskMin..HighRiskMax

(***************************************************************************)
(* Claims about the hook after a failed synthesis.                         *)
(***************************************************************************)
\* C27: when perform_replacement_with_backspace returned false, the callback
\* clears the keyword buffer and issues the forced modifier release, then
\* returns normally: the hook is idle again for the next key event.
C27_FailureCleanedUpNotPropagated ==
    [][(pc = "returned" /\ ~result)
          => /\ pc' = "idle"
             /\ buffer' = << >>
             /\ input'.reset
             /\ ~input'.combo
             /\ input'.mods \subseteq input.mods
             /\ registered' = registered]_vars

\* C27: a synthesis that failed without any modifier release of its own
\* (a rejected Backspace) has returned to the callback.
C27_Witness == pc = "returned" /\ ~result /\ ~input.reset /\ bs_rejected # 0

(***************************************************************************)
(* Claims about when a match is attempted.                                 *)
(***************************************************************************)
\* C28: a replacement is started only while a key-down that pushed a
\* character is processed; an event that pushed nothing never starts one.
C28_StartOnlyOnPushingKeyDown ==
    [][(pc = "idle" /\ pc' = "perform") => event'.pushes = 1]_vars

\* C29: should_check_replacement is true exactly when at least two
\* characters are buffered, and a replacement starts only on a candidate of
\* at least two characters, all pushed since the buffer was last cleared.
C29_MatchNeedsTwoCharacters ==
    [][/\ should_check_replacement(buffer) <=> Len(buffer) >= 2
       /\ (pc = "idle" /\ pc' = "perform")
            => /\ Len(keyword') >= 2
               /\ Len(pushed) + event'.pushes >= 2]_vars

\* C29: a snippet whose keyword is one character matched once a second
\* character was buffered.
C29_Witness ==
    /\ pc = "perform"
    /\ matched # 0
    /\ Len(settings.snippets[matched].keyword) = 1
    /\ Len(keyword) = 2

(***************************************************************************)
(* Claims about the shared settings.                                       *)
(***************************************************************************)
MatchAvailable(buf, s) ==
    /\ s.enabled
    /\ Len(buf) >= 2
    /\ \E i \in 1..Len(s.snippets) :
           s.snippets[i].enabled /\ ends_with(buf, s.snippets[i].keyword)

\* C30: every match attempt reads the enabled flag and the snippet list as
\* the UI or the tray last left them: a replacement starts only when the
\* flag is set and the matched snippet is enabled, and a key event that
\* leaves a matching buffer behind found the flag or the snippet disabled.
C30_SettingsReadAtEveryAttempt ==
    [][/\ (pc = "idle" /\ pc' = "perform")
            => /\ settings.enabled
               /\ matched' \in 1..Len(settings.snippets)
               /\ settings.snippets[matched'].enabled
               /\ ends_with(keyword', settings.snippets[matched'].keyword)
       /\ (pc = "idle" /\ pc' = "idle" /\ buffer' # buffer)
            => ~MatchAvailable(buffer', settings)]_vars

\* C30: the flag and the snippet, both off at the start, were switched on
\* and the next key-down started the replacement.
C30_Witness ==
    /\ pc = "perform"
    /\ event.pushes = 1
    /\ settings.enabled
    /\ settings.snippets[matched].enabled

(***************************************************************************)
(* Claims about the termination of the pipeline.                           *)
(***************************************************************************)
\* The position of the pipeline in its chain of strategies.
Rank ==
    CASE pc = "perform" -> 0
      [] pc = "selection" -> attempt
      [] pc = "backspace" -> 3
      [] pc = "direct" -> 4
      [] pc = "clipboard" -> 5
      [] pc = "paste" -> 6
      [] pc = "paste_alt" -> 7
      [] OTHER -> 8

\* C31: every call of perform_replacement_with_backspace returns, and every
\* step moves it forward in the chain selection pass 1, selection pass 2,
\* erase, direct injection, clipboard with Ctrl+V, Shift+Insert, so that no
\* strategy runs more often than that, whatever the OS rejects.
C31_TerminatesWithBoundedAttempts ==
    /\ [][Rank' > Rank /\ attempt' <= 2]_vars
    /\ <>(pc = "returned" /\ result \in BOOLEAN)

\* C31: the longest chain: both selection passes, the erase phase, the
\* direct injection and Ctrl+V have run and failed, Shift+Insert is next.
C31_Witness ==
    pc = "paste_alt" /\ attempt = 2 /\ ShortAscii(text) /\ backspaces > 0

(***************************************************************************)
(* Claims about the order of the locks.                                    *)
(***************************************************************************)
\* C32: the callbacks take their locks in one order, so no two of them ever
\* wait for each other: one holding the engine and waiting for the keyword
\* buffer while the other holds the keyword buffer and waits for the engine.
C32_NoDeadlock ==
    ~ \E t, u \in Callbacks :
          /\ cb[t].pc = "fail_lock_state" /\ locks.engine = t
          /\ cb[u].pc = "lock_engine" /\ locks.state = u

(***************************************************************************)
(* Claims about what reaches the focused control.                          *)
(***************************************************************************)
\* C33: a replacement that returns true has delivered the text exactly once:
\* the characters of the text before the caret are those of one copy.
C33_TextDeliveredOnce ==
    (pc = "returned" /\ result) => target.typed = chars_count(text)

\* C34: one replacement never removes more of the characters that were in
\* the control before it started than the trigger length it was given.
C34_RemovedWithinTriggerLength ==
    pc # "idle" => target.removed <= keyword_length

\* C35: every character injected as a Unicode key event carries its code
\* point in the 16-bit code.
C35_NoCharacterNarrowed == ~target.narrowed

(***************************************************************************)
(* Claims about the instance the callback resolves to.                     *)
(***************************************************************************)
\* C36: while the hook of a started instance is the only one installed, the
\* callback's weak references are those of that instance.
C36_CallbackBoundToStartedInstance ==
    \A i \in RebindIds :
        (/\ hooks[i].st = "live"
         /\ hooks[i].hook # 0
         /\ registered = {hooks[i].hook})
            => global_refs = i

(***************************************************************************)
(* Claims about try_replace.                                               *)
(***************************************************************************)
\* C37: when a snippet matches, the erase count try_replace passes to the
\* synthesis is the number of characters of the matched keyword.
C37_TryReplaceErasesKeyword ==
    (m_pc = "done" /\ matched # 0)
        => keyword_length = chars_count(settings.snippets[matched].keyword)

====
